---- MODULE Spec2Model ----
(***************************************************************************)
(* Model of the jlctl device-communication layer:                          *)
(*   - Device (src/src/device.rs): one serial connection, a background     *)
(*     reader thread feeding an mpsc channel, a 32-bit sequence counter,   *)
(*     and the blocking request/response operations;                       *)
(*   - DeviceManager (src/src/device_manager.rs): owns at most one Device, *)
(*     opens it lazily and forgets it when a closure fails;                *)
(*   - the acknowledgement part of the wire grammar and the colour field   *)
(*     of a net record (src/src/parser.rs);                                *)
(*   - port discovery (DeviceManager::list_ports, fixup_mac_ports);        *)
(*   - the HTTP handlers sharing the manager (src/src/server.rs) and the   *)
(*     file-backed activity logger (src/src/logger.rs);                    *)
(*   - Node and Color with their text forms (src/src/types.rs), NodeFile   *)
(*     (src/src/netlist.rs) and `bridge add` (src/src/main.rs).            *)
(*                                                                         *)
(* Specifications: Spec / FairSpec / SpecLongLived follow a manager with a *)
(* fixed port path through its with_device calls; DropSpec follows the     *)
(* drop of one Device statement by statement; ParseSpec feeds the reader   *)
(* arbitrary net records; PortSpec runs list_ports on the ports present;   *)
(* ServerSpec interleaves the handlers; LogSpec interleaves the writers of *)
(* the log; TypesSpec applies one conversion to one input; NodeFileSpec    *)
(* and BridgeSpec edit a list of connections; NetlistSpec runs netlist()   *)
(* against the sample reply; DynamicSpec follows a manager without a fixed *)
(* path; ReopenSpec takes open() statement by statement; FifoSpec writes   *)
(* down the lines read and the items received; ReconnectSpec adds a board  *)
(* that answers late; UploadSpec hands a netlist to set_netlist.           *)
(*                                                                         *)
(* A line on the wire is a record [type, seq, idx, nodes, rest]: type is   *)
(* the text up to the optional numeric field, seq the sequence suffix of   *)
(* an acknowledgement (None when absent), idx the index of a net record,   *)
(* nodes and rest the node list and the remaining text of a net record.    *)
(* A u32 is kept as two 16-bit limbs [hi, lo], so that the counter has its *)
(* real width.                                                             *)
(***************************************************************************)
EXTENDS Integers, Sequences, FiniteSets, TLC

\* ------------------------------------------------------------------ bounds
MaxCalls  == 2      \* with_device calls per behaviour
MaxQueue  == 1      \* messages waiting in the inbound channel
MaxResult == 1      \* records a composite operation accumulates
MaxColor  == 6      \* characters of a received colour field
MaxPorts  == 4      \* serial ports present at a time
MaxClients == 2     \* HTTP requests in progress at a time
MaxEntries == 3     \* entries written to the activity log
MaxNumber  == 317   \* greatest integer handed to the Node constructors
MaxConnections == 3 \* connections in a NodeFile, bridges in a Bridgelist
MaxPlugged == 2     \* ports present before a manager in dynamic mode
MaxLines == 3       \* protocol lines the reader is followed through
MaxExtra == 2       \* nets of an uploaded netlist besides the special ones

\* ------------------------------------------------------- program constants
Limb == 65536      \* 2^16: a u32 is hi * Limb + lo

U32(n) == [hi |-> n \div Limb, lo |-> n % Limb]
U32Max == [hi |-> Limb - 1, lo |-> Limb - 1]
None   == [hi |-> -1, lo |-> -1]       \* Option::<u32>::None

IsU32(v) == v.hi \in 0..(Limb - 1) /\ v.lo \in 0..(Limb - 1)

LessU32(a, b) == a.hi < b.hi \/ (a.hi = b.hi /\ a.lo < b.lo)

\* The successor of a count kept as [hi, lo]; hi is not confined to 16 bits.
Succ(v) ==
    IF v.lo < Limb - 1 THEN [hi |-> v.hi, lo |-> v.lo + 1]
    ELSE [hi |-> v.hi + 1, lo |-> 0]

\* u32 wrapping_add(1), as AtomicU32::fetch_add stores it
WrappingSucc(v) ==
    IF v.lo < Limb - 1 THEN [hi |-> v.hi, lo |-> v.lo + 1]
    ELSE IF v.hi < Limb - 1 THEN [hi |-> v.hi + 1, lo |-> 0]
    ELSE U32(0)

\* ------------------------------------------------------------------- state
VARIABLES
    device,      \* DeviceManager.device: "None" or "Some"
    conn,        \* identity of the Device held (0 when none)
    opens,       \* Devices constructed so far
    sequence,    \* Device.sequence (AtomicU32)
    reader,      \* reader thread: "none", "running", "exiting", "finished"
    chan,        \* inbound mpsc channel: sequence of Received
    calls,       \* with_device calls started so far
    pc,          \* caller position
    op,          \* operation run by the current closure
    awaited,     \* sequence number returned by send_instruction
    result,      \* the operation's accumulator (result / messages)
    begin,       \* the `begin` flag of netlist() / chipstatus()
    ret,         \* what with_device returned
    written,     \* lines written to the port during the current call
    usedConn,    \* Device the closure ran on (0: closure not run)
    ackTaken,    \* TRUE once Ok(Some(awaited)) / Error(Some(awaited)) was consumed
    captured,    \* last acknowledgement with another number handed to the collector
    stray,       \* TRUE once the collector kept a Net received outside a bracket
    maxIssued,   \* greatest sequence number written on this Device (None: none yet)
    sends,       \* send_instruction calls made on this Device, as [hi, lo] (not wrapping)
    acquired     \* how device() obtained the Device for the current call

\* State of the finer-grained views: Drop of one Device and its reader loop.
VARIABLES
    stop,        \* the stop channel: number of () sent and not yet received
    rpos,        \* reader loop position: "check" (at try_recv) or "read" (in lines.next())
    dropped,     \* Drop::drop of the Device: "no", "joining", "returned"
    late         \* TRUE once the reader read, logged or sent after drop returned

mainVars == << device, conn, opens, sequence, reader, chan, calls, pc, op, awaited,
               result, begin, ret, written, usedConn, ackTaken, captured, stray,
               maxIssued, sends, acquired >>

dropVars == << stop, rpos, dropped, late >>

\* State of port discovery.
VARIABLES
    ports,       \* what serialport::available_ports() yields: a sequence of port infos
    found        \* what list_ports returned: [result, ports], result "-" before the call

portVars == << ports, found >>

\* How the manager chooses the port.
VARIABLES
    path,        \* DeviceManager.path: 0 for None, else the index of the name in PortNames
    openedPath,  \* the port path handed to Device::new last (0: none yet)
    discovered   \* TRUE once port_path has run list_ports

pathVars == << path, openedPath, discovered >>

\* The HTTP server: handlers sharing the manager behind its Mutex.
VARIABLES
    mutex,       \* Mutex<DeviceManager>: 0 when free, else the handler holding the guard
    poisoned,    \* TRUE once a handler panicked while holding the guard
    hpc,         \* position of each handler
    hleft,       \* operations the handler's closure has still to start
    hawaited,    \* sequence number the handler's current operation waits for
    actor        \* whose step the last step was (0: the reader thread, or none yet)

srvVars == << mutex, poisoned, hpc, hleft, hawaited, actor >>

\* The file-backed activity logger shared by the caller and the reader thread.
VARIABLES
    file,        \* log.txt: the sequence of pieces written, [tag, part]
    guard,       \* Mutex<File>: "free", or the tag of the thread holding the guard
    filePoisoned,\* TRUE once a thread panicked while holding the guard
    wpc,         \* position of each thread in write_line
    part,        \* the piece of its line each thread writes next
    entries      \* entries begun so far

logVars == << file, guard, filePoisoned, wpc, part, entries >>

\* Values of types.rs and the results of their conversions.
VARIABLES
    call,        \* the conversion applied last ("-": none yet)
    number,      \* the integer handed to it
    textIn,      \* the text handed to it
    nodeOut,     \* the Node it produced: [ok, node]
    shown,       \* the text form of that Node
    again,       \* what Node::parse makes of that text form
    colorIn,     \* the Color handed to Display
    colorText,   \* its text form
    colorOut     \* what Color::try_from makes of that text form: [ok, value]

typeVars == << call, number, textIn, nodeOut, shown, again, colorIn, colorText,
               colorOut >>

\* Lists of bridges.
VARIABLES
    nodefile,    \* a NodeFile: its Vec<Connection>, each Connection << a, b >>
    combined,    \* the Bridgelist on the board: a Vec<(Node, Node)>, each << a, b >>
    fcall,       \* the operation applied last ("-": none yet)
    farg         \* the connections or bridges handed to it

listVars == << nodefile, combined, fcall, farg >>

\* What the reader loop's read returned.
VARIABLES
    lastRead     \* [what, line]: what lines.next() returned last, and the line if any

readVars == << lastRead >>

\* The board's reply to one netlist request.
VARIABLES
    emitted      \* [call, pos]: lines of the reply sent so far, and to which call

replyVars == << emitted >>

\* What the reader read and what the owner of the Device received.
VARIABLES
    readLog,     \* the lines starting with "::" the reader has read, in read order
    taken        \* the items the owner has received from the channel, in order

fifoVars == << readLog, taken >>

\* The board, as far as it answers after the Device it was asked on is gone.
VARIABLES
    working,     \* the instruction the board took last: [conn, seq, busy] (conn 0: none)
    origin       \* for each item queued last: the Device its line answers

boardVars == << working, origin >>

\* A netlist on its way to Device::set_netlist.
VARIABLES
    entry,       \* where it came from: "-", "cli" (net send) or "http" (PUT /nets)
    submitted,   \* the Vec<Net> the entry point deserialized
    uploaded     \* the argument of set_netlist: [sent, nets]

uploadVars == << entry, submitted, uploaded >>

moreVars == << fifoVars, boardVars, uploadVars >>

otherExt == << srvVars, logVars, typeVars, listVars, replyVars >>

extVars == << otherExt, readVars, moreVars >>

auxVars == << dropVars, portVars, pathVars, extVars >>

vars == << mainVars, auxVars >>

devVars  == << device, conn, sequence, reader, chan, maxIssued, sends >>
callVars == << pc, op, awaited, result, begin, ret, written, usedConn,
               ackTaken, captured, stray, acquired >>

\* ---------------------------------------------------------------- messages
Ok(s)        == [type |-> "Ok", seq |-> s, idx |-> 0]
Error(s)     == [type |-> "Error", seq |-> s, idx |-> 0]
NetlistBegin == [type |-> "NetlistBegin", seq |-> None, idx |-> 0]
NetlistEnd   == [type |-> "NetlistEnd", seq |-> None, idx |-> 0]
Net(i)       == [type |-> "Net", seq |-> None, idx |-> i]
Bridgelist   == [type |-> "Bridgelist", seq |-> None, idx |-> 0]
SupplySwitch == [type |-> "SupplySwitch", seq |-> None, idx |-> 0]
NoMessage    == [type |-> "-", seq |-> None, idx |-> 0]

ReceivedMessage(m)      == [kind |-> "Message", body |-> m]
ReceivedUnrecognized(l) == [kind |-> "Unrecognized", body |-> l]
ReceivedError(text)     == [kind |-> "Error", body |-> [type |-> text, seq |-> None, idx |-> 0]]

\* ------------------------------------------------------------- - types.rs: Node
\* A Node is [named, col]: named is the position of the variant in the enum
\* (0 for Column), col the number of a Column (0 for a named variant).
Column(n) == [named |-> 0, col |-> n]
Named(i)  == [named |-> i, col |-> 0]
NoNode    == [named |-> 0, col |-> 0]

Some(node) == [ok |-> TRUE, node |-> node]
Failed     == [ok |-> FALSE, node |-> NoNode]

\* A text is [sign, digits, word]: a text made of an optional sign and
\* decimal digits only is kept as its sign and digits, any other text as a
\* word.
Word(w)           == [sign |-> "", digits |-> << >>, word |-> w]
Digits(sign, ds)  == [sign |-> sign, digits |-> ds, word |-> ""]
NoText            == Word("")

MaxColumn == 60
U8Max     == 255
U8Width   == 256

RECURSIVE DecimalDigits(_)
DecimalDigits(n) ==
    IF n < 10 THEN << n >> ELSE Append(DecimalDigits(n \div 10), n % 10)

RECURSIVE DecimalValue(_)
DecimalValue(ds) ==
    IF ds = << >> THEN 0
    ELSE 10 * DecimalValue(SubSeq(ds, 1, Len(ds) - 1)) + ds[Len(ds)]

\* `{}` of an integer
Decimal(n) == IF n < 0 THEN Digits("-", DecimalDigits(-n)) ELSE Digits("", DecimalDigits(n))

\* str::parse::<u8>: an optional `+`, at least one digit, value at most 255.
parse_u8(text) ==
    IF text.word = "" /\ text.digits # << >> /\ text.sign \in {"", "+"}
       /\ DecimalValue(text.digits) <= U8Max
    THEN [ok |-> TRUE, value |-> DecimalValue(text.digits)]
    ELSE [ok |-> FALSE, value |-> 0]

\* The variants of enum Node, in declaration order; derive(Debug) prints them.
NodeNames == <<
    "GND", "SUPPLY_5V", "SUPPLY_3V3", "DAC0", "DAC1", "ISENSE_MINUS",
    "ISENSE_PLUS", "ADC0", "ADC1", "ADC2", "ADC3", "NANO_D0", "NANO_D1",
    "NANO_D2", "NANO_D3", "NANO_D4", "NANO_D5", "NANO_D6", "NANO_D7",
    "NANO_D8", "NANO_D9", "NANO_D10", "NANO_D11", "NANO_D12", "NANO_D13",
    "NANO_A0", "NANO_A1", "NANO_A2", "NANO_A3", "NANO_A4", "NANO_A5",
    "NANO_A6", "NANO_A7", "NANO_RESET", "NANO_AREF", "RP_GPIO_0",
    "RP_UART_Rx", "RP_UART_Tx" >>

\* Variant: every integer from 0 on is taken as a column.
Node_col_from_zero(n) == IF n >= 0 THEN Some(Column(n)) ELSE Failed

\* Node::col
Node_col(n) == IF n \in 1..MaxColumn THEN Some(Column(n)) ELSE Failed

\* The arms of Node::parse for the canonical names: << name, variant >>.
CanonicalArms == {
    << "GND", 1 >>, << "SUPPLY_5V", 2 >>, << "SUPPLY_3V3", 3 >>,
    << "DAC0", 4 >>, << "DAC1", 5 >>, << "ISENSE_MINUS", 6 >>,
    << "ISENSE_PLUS", 7 >>, << "ADC0", 8 >>, << "ADC1", 9 >>,
    << "ADC2", 10 >>, << "ADC3", 11 >>, << "NANO_D0", 12 >>,
    << "NANO_D1", 13 >>, << "NANO_D2", 14 >>, << "NANO_D3", 15 >>,
    << "NANO_D4", 16 >>, << "NANO_D5", 17 >>, << "NANO_D6", 18 >>,
    << "NANO_D7", 19 >>, << "NANO_D8", 20 >>, << "NANO_D9", 21 >>,
    << "NANO_D10", 22 >>, << "NANO_D11", 23 >>, << "NANO_D12", 24 >>,
    << "NANO_D13", 25 >>, << "NANO_A0", 26 >>, << "NANO_A1", 27 >>,
    << "NANO_A2", 28 >>, << "NANO_A3", 29 >>, << "NANO_A4", 30 >>,
    << "NANO_A5", 31 >>, << "NANO_A6", 32 >>, << "NANO_A7", 33 >>,
    << "NANO_RESET", 34 >>, << "NANO_AREF", 35 >>, << "RP_GPIO_0", 36 >>,
    << "RP_UART_Rx", 37 >>, << "RP_UART_Tx", 38 >> }

\* The arms of Node::parse for the aliases.
AliasArms == {
    << "5V", 2 >>, << "3V3", 3 >>, << "DAC0_5V", 4 >>, << "DAC1_8V", 5 >>,
    << "I_N", 6 >>, << "I_P", 7 >>, << "ADC0_5V", 8 >>, << "ADC1_5V", 9 >>,
    << "ADC2_5V", 10 >>, << "ADC3_8V", 11 >>, << "D0", 12 >>, << "D1", 13 >>,
    << "D2", 14 >>, << "D3", 15 >>, << "D4", 16 >>, << "D5", 17 >>,
    << "D6", 18 >>, << "D7", 19 >>, << "D8", 20 >>, << "D9", 21 >>,
    << "D10", 22 >>, << "D11", 23 >>, << "D12", 24 >>, << "D13", 25 >>,
    << "A0", 26 >>, << "A1", 27 >>, << "A2", 28 >>, << "A3", 29 >>,
    << "A4", 30 >>, << "A5", 31 >>, << "A6", 32 >>, << "A7", 33 >>,
    << "RESET", 34 >>, << "AREF", 35 >>, << "GPIO_0", 36 >>,
    << "UART_Rx", 37 >>, << "UART_Tx", 38 >>, << "DAC 0", 4 >>,
    << "DAC 1", 5 >>, << "DAC_0", 4 >>, << "DAC_1", 5 >>, << "I_NEG", 6 >>,
    << "I_POS", 7 >>, << "ADC_0", 8 >>, << "ADC_1", 9 >>, << "ADC_2", 10 >>,
    << "ADC_3", 11 >>, << "GPIO_16", 37 >>, << "GPIO_17", 38 >> }

Arms == CanonicalArms \cup AliasArms

\* Variant: only the aliases are known by name.
Node_parse_aliases_only(text) ==
    IF parse_u8(text).ok
    THEN Node_col(parse_u8(text).value)
    ELSE IF \E a \in AliasArms : a[1] = text.word /\ text.digits = << >>
    THEN Some(Named((CHOOSE a \in AliasArms : a[1] = text.word)[2]))
    ELSE Failed

\* Node::parse
Node_parse(text) ==
    IF parse_u8(text).ok
    THEN Node_col(parse_u8(text).value)
    ELSE IF \E a \in Arms : a[1] = text.word /\ text.digits = << >>
    THEN Some(Named((CHOOSE a \in Arms : a[1] = text.word)[2]))
    ELSE Failed

\* NodeVisitor::visit_u64: `Node::col(v as u8)`; the cast keeps the low 8 bits.
visit_u64(v) == Node_col(v % U8Width)

\* Display for Node
Node_fmt(node) ==
    IF node.named = 0 THEN Decimal(node.col) ELSE Word(NodeNames[node.named])

\* ------------------------------------------------------------ wire grammar
\* Text is a sequence of characters, each a one-character string.

\* UTF-8 length of a character ("é" stands for every non-ASCII character).
ByteLen(c) == IF c = "é" THEN 2 ELSE 1

\* Value of a hexadecimal digit, -1 for any other character.
HexVal(c) ==
    CASE c = "0" -> 0  [] c = "1" -> 1  [] c = "2" -> 2  [] c = "3" -> 3
      [] c = "4" -> 4  [] c = "5" -> 5  [] c = "6" -> 6  [] c = "7" -> 7
      [] c = "8" -> 8  [] c = "9" -> 9
      [] c \in {"a", "A"} -> 10  [] c \in {"b", "B"} -> 11
      [] c \in {"c", "C"} -> 12  [] c \in {"d", "D"} -> 13
      [] c \in {"e", "E"} -> 14  [] c \in {"f", "F"} -> 15
      [] OTHER -> -1

DropChars(text, n) == SubSeq(text, n + 1, Len(text))

StartsWith(text, prefix) ==
    Len(text) >= Len(prefix) /\ SubSeq(text, 1, Len(prefix)) = prefix

\* u8::from_str_radix(slice, 16) for a slice of two bytes: two digits, or a
\* sign `+` and one digit; anything else is an error (-1).
from_str_radix(slice) ==
    IF Len(slice) = 2 /\ HexVal(slice[1]) >= 0 /\ HexVal(slice[2]) >= 0
    THEN 16 * HexVal(slice[1]) + HexVal(slice[2])
    ELSE IF Len(slice) = 2 /\ slice[1] = "+" /\ HexVal(slice[2]) >= 0
    THEN HexVal(slice[2])
    ELSE -1

\* Characters covered by the byte range 0..2 of the text, or 0 when the
\* slice `&input[0..2]` panics: fewer than two bytes, or byte 2 inside a
\* character.
SliceChars(input) ==
    IF input = << >> THEN 0
    ELSE IF ByteLen(input[1]) = 2 THEN 1
    ELSE IF Len(input) >= 2 /\ ByteLen(input[2]) = 1 THEN 2
    ELSE 0

\* parser::color_part: a parse error of the two bytes is replaced by 0.
color_part(input) ==
    IF SliceChars(input) = 0
    THEN [panic |-> TRUE, value |-> 0, rest |-> << >>]
    ELSE [panic |-> FALSE,
          value |-> IF from_str_radix(SubSeq(input, 1, SliceChars(input))) >= 0
                    THEN from_str_radix(SubSeq(input, 1, SliceChars(input)))
                    ELSE 0,
          rest  |-> DropChars(input, SliceChars(input))]

\* parser::color: tuple((color_part, color_part, color_part))
color(input) ==
    LET r == color_part(input)
        g == color_part(r.rest)
        b == color_part(g.rest)
    IN  IF r.panic \/ g.panic \/ b.panic
        THEN [panic |-> TRUE, value |-> << 0, 0, 0 >>, rest |-> << >>]
        ELSE [panic |-> FALSE, value |-> << r.value, g.value, b.value >>,
              rest |-> b.rest]

\* parser::net after the colour: tag(","), boolean, tag(","), name,
\* tag("]"), and nothing left (all_consuming).
NetTail(text) ==
    \E b \in { << "t", "r", "u", "e" >>, << "f", "a", "l", "s", "e" >> } :
        /\ StartsWith(text, << "," >> \o b \o << "," >>)
        /\ LET name == DropChars(text, Len(b) + 2)
           IN  /\ name # << >>
               /\ name[Len(name)] = "]"
               /\ \A k \in 1..(Len(name) - 1) : name[k] # "]"

\* The end of a well-formed net record: `001c04,false,G]`
GoodTail == << ",", "f", "a", "l", "s", "e", ",", "G", "]" >>
GoodRest == << "0", "0", "1", "c", "0", "4" >> \o GoodTail

\* A line: `nodes` are the texts of a net record's node list and `rest`
\* is its text from the colour field on.
NetLine(i, r) ==
    [type |-> "::net", seq |-> None, idx |-> i, nodes |-> << Word("GND") >>, rest |-> r]

Line(t, s, i) ==
    [type |-> t, seq |-> s, idx |-> i,
     nodes |-> IF t = "::net" THEN << Word("GND") >> ELSE << >>,
     rest |-> IF t = "::net" THEN GoodRest ELSE << >>]

\* parser::nodes: separated_list1(tag(";"), node), each node through Node::parse
nodes(texts) ==
    texts # << >> /\ \A k \in 1..Len(texts) : Node_parse(texts[k]).ok

\* parser::sequence_number: no suffix gives None, ":<u32>" gives Some(n)
sequence_number(a) ==
    IF a = None THEN [ok |-> TRUE, val |-> None]
    ELSE IF IsU32(a) THEN [ok |-> TRUE, val |-> a]
    ELSE [ok |-> FALSE, val |-> None]

ParseFail == [ok |-> FALSE, msg |-> NoMessage, panic |-> FALSE]

Parsed(m) == [ok |-> TRUE, msg |-> m, panic |-> FALSE]

\* parser::net: a field before the colour that does not parse fails the
\* parser before the colour is looked at.
net(line) ==
    IF line.idx \notin 0..U8Max THEN ParseFail
    ELSE IF ~nodes(line.nodes) THEN ParseFail
    ELSE IF color(line.rest).panic
    THEN [ok |-> FALSE, msg |-> NoMessage, panic |-> TRUE]
    ELSE IF NetTail(color(line.rest).rest) THEN Parsed(Net(line.idx))
    ELSE ParseFail

\* parser::message: all_consuming(alt(ok, error, netlist-begin, netlist-end,
\* net, bridgelist, supplyswitch))
message(line) ==
    CASE line.type = "::ok" ->
            IF sequence_number(line.seq).ok
            THEN Parsed(Ok(sequence_number(line.seq).val))
            ELSE ParseFail
      [] line.type = "::error" ->
            IF sequence_number(line.seq).ok
            THEN Parsed(Error(sequence_number(line.seq).val))
            ELSE ParseFail
      [] line.type = "::netlist-begin" -> Parsed(NetlistBegin)
      [] line.type = "::netlist-end" -> Parsed(NetlistEnd)
      [] line.type = "::net" -> net(line)
      [] line.type = "::bridgelist" -> Parsed(Bridgelist)
      [] line.type = "::supplyswitch" -> Parsed(SupplySwitch)
      [] OTHER -> ParseFail

parse_received(line) ==
    IF message(line).ok THEN ReceivedMessage(message(line).msg)
    ELSE ReceivedUnrecognized(line)

\* Lines the device is taken to emit: acknowledgements without a number or
\* with one of the numbers MaxCalls sends can use, a netlist of up to
\* MaxResult nets, a bridge list, a switch position, and a chip-status line
\* (which parser::message does not know).
AckArgs == {None} \cup { U32(n) : n \in 1..MaxCalls }
Lines ==
    { Line(t, a, 0) : t \in {"::ok", "::error"}, a \in AckArgs }
    \cup { Line("::net", None, i) : i \in 1..MaxResult }
    \cup { Line(t, None, 0) : t \in {"::netlist-begin", "::netlist-end",
                                  "::bridgelist", "::supplyswitch",
                                  "::chipstatus-begin"} }

\* -------------------------------------------------------------- operations
CompositeOps == {"netlist", "set_netlist", "bridgelist", "set_bridgelist",
                 "supply_switch", "set_supply_switch", "lightnet",
                 "chipstatus", "raw"}
\* "noop" is the closure of status(); "fail" is a closure that fails before
\* touching the device (e.g. `color.try_into()?`).
Ops == CompositeOps \cup {"noop", "fail"}

OkRets == {"Ok", "OkFalse"}

IsAck(received) ==
    received.kind = "Message" /\ received.body.type \in {"Ok", "Error"}

\* ------------------------------------------------------ Device::receive
\* recv_timeout(RESPONSE_TIMEOUT): the next queued item, or an Error when
\* nothing is queued for the whole timeout (or the sender is gone).
receive ==
    IF chan = << >> THEN ReceivedError("Timeout while receiving reply")
    ELSE Head(chan)

rest == IF chan = << >> THEN chan ELSE Tail(chan)

\* Variant: a positive acknowledgement ends the wait whatever number it carries.
ReceiveOkMatchAnySeq(received, seqno) ==
    CASE received.kind = "Message" /\ received.body.type = "Ok"
            /\ received.body.seq # None -> "Ok"
      [] received.kind = "Message" /\ received.body.type = "Error"
            /\ received.body.seq # None /\ received.body.seq = seqno -> "ErrResponse"
      [] received.kind = "Message" -> "Capture"
      [] received.kind = "Error" -> "ErrTransport"
      [] OTHER -> "Ignore"

\* The match of receive_ok_capture.
ReceiveOkMatch(received, seqno) ==
    CASE received.kind = "Message" /\ received.body.type = "Ok"
            /\ received.body.seq # None /\ received.body.seq = seqno -> "Ok"
      [] received.kind = "Message" /\ received.body.type = "Error"
            /\ received.body.seq # None /\ received.body.seq = seqno -> "ErrResponse"
      [] received.kind = "Message" -> "Capture"
      [] received.kind = "Error" -> "ErrTransport"
      [] OTHER -> "Ignore"

\* Variant: a Net record is put in front of those collected before.
NetlistCollect_prepends(m, res, bgn) ==
    CASE m.type = "NetlistBegin" -> [result |-> res, begin |-> TRUE]
      [] m.type = "NetlistEnd"   -> [result |-> res, begin |-> FALSE]
      [] m.type = "Net"          -> [result |-> << m >> \o res, begin |-> bgn]
      [] OTHER                   -> [result |-> res, begin |-> bgn]

\* The closure netlist() passes to receive_ok_capture.
NetlistCollect(m, res, bgn) ==
    CASE m.type = "NetlistBegin" -> [result |-> res, begin |-> TRUE]
      [] m.type = "NetlistEnd"   -> [result |-> res, begin |-> FALSE]
      [] m.type = "Net"          -> [result |-> Append(res, m), begin |-> bgn]
      [] OTHER                   -> [result |-> res, begin |-> bgn]

\* The closure chipstatus() passes to receive_ok_capture.
ChipStatusCollect(m, res, bgn) ==
    CASE m.type = "ChipStatusBegin" -> [result |-> res, begin |-> TRUE]
      [] m.type = "ChipStatus" ->
            [result |-> IF bgn THEN Append(res, m) ELSE res, begin |-> bgn]
      [] m.type = "ChipStatusEnd" -> [result |-> res, begin |-> FALSE]
      [] OTHER -> [result |-> res, begin |-> bgn]

\* The closure supply_switch() passes to receive_ok_capture.
SupplySwitchCollect(m, res, bgn) ==
    IF m.type = "SupplySwitch" THEN [result |-> << m >>, begin |-> bgn]
    ELSE [result |-> res, begin |-> bgn]

\* The collector of each caller of receive_ok_capture (receive_ok: |_| {}).
Collect(o, m, res, bgn) ==
    CASE o = "netlist"       -> NetlistCollect(m, res, bgn)
      [] o = "chipstatus"    -> ChipStatusCollect(m, res, bgn)
      [] o = "supply_switch" -> SupplySwitchCollect(m, res, bgn)
      [] OTHER               -> [result |-> res, begin |-> bgn]

\* What the operation returns once receive_ok_capture returned Ok(()).
AfterOk(o, res) ==
    IF o = "supply_switch" /\ res = << >> THEN "Err" ELSE "Ok"

\* Where the operation continues after send_instruction returned Ok(seq).
AfterSend(o) ==
    CASE o = "lightnet"   -> "done"
      [] o = "raw"        -> "raw"
      [] o = "bridgelist" -> "bridgelist"
      [] OTHER            -> "receive_ok"

\* fetch_add(1) + 1 on the AtomicU32: fetch_add wraps; the `+ 1` on the
\* value it returned overflows when that value is u32::MAX, which panics in
\* a build with overflow checks and wraps to 0 in one without.
SequenceOutcomes(s) ==
    IF s = U32Max THEN {"panic", "wrap"} ELSE {"next"}

NextSequenceNumber(s) == WrappingSucc(s)

\* ------------------------------------------------------- types.rs: Color
LowerHex == << "0", "1", "2", "3", "4", "5", "6", "7", "8", "9",
               "a", "b", "c", "d", "e", "f" >>

HexBase == 16

\* Variant: `{:x}`, without the padding to two digits.
format_x(n) ==
    IF n < HexBase THEN << LowerHex[n + 1] >>
    ELSE << LowerHex[(n \div HexBase) + 1], LowerHex[(n % HexBase) + 1] >>

\* `{:02x}` of a u8
format_02x(n) == << LowerHex[(n \div HexBase) + 1], LowerHex[(n % HexBase) + 1] >>

\* Display for Color: "#{:02x}{:02x}{:02x}"
Color_fmt(c) == << "#" >> \o format_02x(c[1]) \o format_02x(c[2]) \o format_02x(c[3])

\* str::trim_start_matches: the prefix is removed as often as it leads.
RECURSIVE trim_start_matches(_, _)
trim_start_matches(text, prefix) ==
    IF prefix # << >> /\ StartsWith(text, prefix)
    THEN trim_start_matches(DropChars(text, Len(prefix)), prefix)
    ELSE text

\* TryFrom<String> for Color: the prefixes "0x", "0X" and "#" are trimmed
\* and parser::color reads what is left; a panic of the parser is no value.
Color_try_from(text) ==
    LET trimmed == trim_start_matches(
                     trim_start_matches(
                       trim_start_matches(text, << "0", "x" >>), << "0", "X" >>),
                     << "#" >>)
    IN  [ok |-> ~color(trimmed).panic, value |-> color(trimmed).value]

\* ------------------------------------------------- DeviceManager fragments
\* ------------------------------------------------------ port discovery
\* A port info is [name, usb, product]: name is the index of the port name
\* in PortNames, which is sorted as Rust compares strings (byte-wise), so
\* that comparing indices is comparing names; usb is 0 for a port that is
\* not a USB port and otherwise stands for its (vid, pid); product is the
\* USB product string.
PortNames == << "/dev/cu.usbmodem01", "/dev/cu.usbmodem03",
                "/dev/tty.usbmodem01", "/dev/tty.usbmodem03", "/dev/ttyACM0" >>

UsbIds == {1, 2}
Products == {"Jumperless", "Other"}

\* port_name.starts_with("/dev/cu.") and port_name.starts_with("/dev/tty.")
IsCu(name)  == name \in {1, 2}
IsTty(name) == name \in {3, 4}

\* The physical port a device node belongs to: the name after its prefix.
Physical(name) ==
    CASE name \in {1, 3} -> "usbmodem01"
      [] name \in {2, 4} -> "usbmodem03"
      [] OTHER -> "ACM0"

PortInfos ==
    { [name |-> n, usb |-> u, product |-> p] :
        n \in 1..Len(PortNames), u \in UsbIds, p \in Products }
    \cup { [name |-> n, usb |-> 0, product |-> "Other"] : n \in 1..Len(PortNames) }

\* The operating system lists every device node once.  The two USB ids
\* are interchangeable, so the one listed first is called 1.
MayFollow(l, p) ==
    /\ \A i \in 1..Len(l) : l[i].name # p.name
    /\ p.usb = 2 => \E i \in 1..Len(l) : l[i].usb = 1

\* Variant: the "tty" nodes are kept as well.
fixup_mac_ports_keeps_tty(infos) == infos

\* fixup_mac_ports: when "cu" and "tty" nodes are both present, only the
\* "cu" nodes are retained.
fixup_mac_ports(infos) ==
    LET cu  == \E i \in 1..Len(infos) : IsCu(infos[i].name)
        tty == \E i \in 1..Len(infos) : IsTty(infos[i].name)
    IN  IF cu /\ tty
        THEN SelectSeq(infos, LAMBDA info : IsCu(info.name))
        ELSE infos

FoundPort(i, r) == [info |-> i, role |-> r]

\* Variant: the greater of the two names is taken as primary.
primary_index_greater(a, b) == IF a > b THEN 1 ELSE 2

\* `let (primary, arduino) = if a > b { (1, 0) } else { (0, 1) }` (1-based here)
primary_index(a, b) == IF a > b THEN 2 ELSE 1

\* Variant: the first two ports of an oversized group get the roles.
more_than_two_first_two(infos) ==
    << FoundPort(infos[1], "JumperlessPrimary"),
       FoundPort(infos[2], "JumperlessArduino") >>

\* list_ports, `_ =>` arm: an error is logged and nothing is pushed.
more_than_two(infos) == << >>

\* Variant: only the first port of a group that does not match is reported.
not_matching_first_only(infos) == << FoundPort(infos[1], "Unknown") >>

\* list_ports, else branch: every port of the group is pushed as Unknown.
not_matching(infos) ==
    [i \in 1..Len(infos) |-> FoundPort(infos[i], "Unknown")]

\* list_ports, the body of the loop over by_usb_id for one group.
group_found(infos) ==
    IF infos[1].product = "Jumperless"
    THEN LET fixed == fixup_mac_ports(infos)
         IN  CASE Len(fixed) = 1 ->
                    << FoundPort(fixed[1], "JumperlessPrimary") >>
               [] Len(fixed) = 2 ->
                    LET primary == primary_index(fixed[1].name, fixed[2].name)
                        arduino == 3 - primary
                    IN  << FoundPort(fixed[primary], "JumperlessPrimary"),
                           FoundPort(fixed[arduino], "JumperlessArduino") >>
               [] OTHER -> more_than_two(fixed)
    ELSE not_matching(infos)

\* by_usb_id[id]: the USB ports with that id, in the order they were listed.
by_usb_id(infos, id) == SelectSeq(infos, LAMBDA info : info.usb = id)

\* The keys of by_usb_id.
usb_ids(infos) == { infos[i].usb : i \in 1..Len(infos) } \ {0}

\* The orders in which a HashMap can hand out its keys.
KeyOrders(ids) ==
    { o \in [1..Cardinality(ids) -> ids] :
        \A i, j \in 1..Cardinality(ids) : i # j => o[i] # o[j] }

RECURSIVE found_in_order(_, _)
found_in_order(infos, order) ==
    IF order = << >> THEN << >>
    ELSE group_found(by_usb_id(infos, Head(order)))
            \o found_in_order(infos, Tail(order))

\* Variant: the first port list_ports returns is taken, whatever its role.
port_path_any_role(order, listing) ==
    IF path # 0
    THEN [ok |-> TRUE, name |-> path, listed |-> FALSE]
    ELSE LET all == found_in_order(ports, order)
         IN  IF ~listing \/ all = << >>
             THEN [ok |-> FALSE, name |-> 0, listed |-> TRUE]
             ELSE [ok |-> TRUE, name |-> all[1].info.name, listed |-> TRUE]

\* Variant: discovery runs whether or not a path was given.
port_path_discovers(order, listing) ==
    LET primary == SelectSeq(found_in_order(ports, order),
                             LAMBDA port : port.role = "JumperlessPrimary")
    IN  IF ~listing \/ primary = << >>
        THEN [ok |-> FALSE, name |-> 0, listed |-> TRUE]
        ELSE [ok |-> TRUE, name |-> primary[1].info.name, listed |-> TRUE]

\* DeviceManager::port_path: the fixed path when there is one; otherwise the
\* first port list_ports returns as JumperlessPrimary, or an error when
\* listing fails (`listing` FALSE) or no such port is found.
port_path(order, listing) ==
    IF path # 0
    THEN [ok |-> TRUE, name |-> path, listed |-> FALSE]
    ELSE LET primary == SelectSeq(found_in_order(ports, order),
                                  LAMBDA port : port.role = "JumperlessPrimary")
         IN  IF ~listing \/ primary = << >>
             THEN [ok |-> FALSE, name |-> 0, listed |-> TRUE]
             ELSE [ok |-> TRUE, name |-> primary[1].info.name, listed |-> TRUE]

\* ------------------------------------------------------- device manager
\* Variant: the failed closure's Device is kept.
forget_device_keeps ==
    UNCHANGED << device, conn, sequence, reader, chan, maxIssued, sends >>

\* self.device = None: the Device is dropped, its reader stopped and joined.
forget_device ==
    /\ device' = "None"
    /\ conn' = 0
    /\ sequence' = U32(0)
    /\ reader' = "none"
    /\ chan' = << >>
    /\ maxIssued' = None
    /\ sends' = U32(0)

\* Device::new succeeded and `self.device = Some(device)`.
open ==
    /\ device' = "Some"
    /\ conn' = opens + 1
    /\ opens' = opens + 1
    /\ sequence' = U32(0)
    /\ reader' = "running"
    /\ chan' = << >>
    /\ maxIssued' = None
    /\ sends' = U32(0)

\* Variant: a Device is taken to be alive whenever it exists.
is_alive_always == TRUE

\* Device::is_alive: !thread.is_finished()
is_alive == reader # "finished"

\* Variant: status() hands the acquisition error on.
status_propagates(r) == [ok |-> r = "Ok", connected |-> r = "Ok"]

\* DeviceManager::status, given what `self.with_device(|_| Ok(()))` returned:
\* `Ok(Status { connected: <that>.is_ok() })`
status(r) == [ok |-> TRUE, connected |-> r = "Ok"]

ResetCall(o) ==
    /\ op' = o
    /\ UNCHANGED << awaited, result, begin, written, ackTaken, captured, stray >>

\* The closure starts on the Device `c`; `dev` says how the Device is left
\* when the closure does not fail at once.
RunClosure(o, c, dev) ==
    /\ usedConn' = c
    /\ IF o = "fail"
       THEN /\ pc' = "done" /\ ret' = "Err" /\ forget_device
       ELSE /\ pc' = IF o = "noop" THEN "done" ELSE "send"
            /\ ret' = IF o = "noop" THEN "Ok" ELSE "Pending"
            /\ dev

\* The behaviour is followed until the last of MaxCalls calls has returned.
Over == pc \in {"idle", "panic"} /\ calls = MaxCalls

\* The reader thread runs concurrently with the caller.  Its steps commute
\* with the caller's steps that touch neither the channel nor is_alive
\* (writing the instruction, handing the result back), so they are taken
\* while the caller is between calls or blocked in receive().
ReaderMayStep == ~Over /\ pc \in {"idle", "receive_ok", "raw", "bridgelist"}

\* ---------------------------------------------------------------- actions
\* with_device, device() finds a live Device.
WithDeviceAlive(o) ==
    /\ pc = "idle"
    /\ calls < MaxCalls
    /\ device = "Some" /\ is_alive
    /\ calls' = calls + 1
    /\ ResetCall(o)
    /\ acquired' = "alive"
    /\ RunClosure(o, conn, UNCHANGED devVars)
    /\ UNCHANGED opens
    /\ UNCHANGED auxVars

\* with_device, device() calls open(): port_path() yields a path and
\* Device::new succeeds on it.
WithDeviceOpen(o) ==
    /\ pc = "idle"
    /\ calls < MaxCalls
    /\ ~(device = "Some" /\ is_alive)
    /\ calls' = calls + 1
    /\ ResetCall(o)
    /\ acquired' = IF device = "None" THEN "opened" ELSE "reopened"
    /\ \E order \in KeyOrders(usb_ids(ports)) :
         /\ port_path(order, TRUE).ok
         /\ openedPath' = port_path(order, TRUE).name
         /\ discovered' = (discovered \/ port_path(order, TRUE).listed)
    /\ IF o = "fail"
       THEN RunClosure(o, opens + 1, TRUE) /\ opens' = opens + 1
       ELSE RunClosure(o, opens + 1, open)
    /\ UNCHANGED << path, dropVars, portVars, extVars >>

\* Variant: a failed open is tried once more inside the same call, and the
\* closure runs on the Device the second attempt built.
WithDeviceOpenErr_retries(o) ==
    /\ pc = "idle"
    /\ calls < MaxCalls
    /\ ~(device = "Some" /\ is_alive)
    /\ calls' = calls + 1
    /\ ResetCall(o)
    /\ acquired' = "failed"
    /\ RunClosure(o, opens + 1, open)
    /\ UNCHANGED << path, openedPath, discovered, dropVars, portVars, extVars >>

\* with_device, device() calls open() and port_path() fails, or it yields a
\* path and Device::new fails on it.
WithDeviceOpenErr(o) ==
    /\ pc = "idle"
    /\ calls < MaxCalls
    /\ ~(device = "Some" /\ is_alive)
    /\ calls' = calls + 1
    /\ ResetCall(o)
    /\ acquired' = "failed"
    /\ pc' = "done"
    /\ ret' = "ConnErr"
    /\ usedConn' = 0
    /\ \E order \in KeyOrders(usb_ids(ports)), listing \in BOOLEAN :
         /\ discovered' = (discovered \/ port_path(order, listing).listed)
         /\ openedPath' = IF port_path(order, listing).ok
                          THEN port_path(order, listing).name
                          ELSE openedPath
    /\ UNCHANGED << devVars, opens >>
    /\ UNCHANGED << path, dropVars, portVars, extVars >>

\* with_device hands the result to its caller; the closure's locals are gone.
with_device_return ==
    /\ pc = "done"
    /\ pc' = "idle"
    /\ op' = "noop"
    /\ ret' = "Pending"
    /\ usedConn' = 0
    /\ acquired' = "-"
    /\ awaited' = U32(0)
    /\ result' = << >>
    /\ begin' = FALSE
    /\ written' = 0
    /\ ackTaken' = FALSE
    /\ captured' = NoMessage
    /\ stray' = FALSE
    /\ UNCHANGED << devVars, opens, calls >>
    /\ UNCHANGED auxVars

\* Device::send_instruction and what the operation does with its result.
send_instruction ==
    /\ pc = "send"
    /\ \E outcome \in SequenceOutcomes(sequence), wrote \in BOOLEAN :
         IF outcome = "panic"
         THEN /\ pc' = "panic"
              /\ sequence' = NextSequenceNumber(sequence)
              /\ sends' = Succ(sends)
              /\ UNCHANGED << device, conn, reader, chan, maxIssued, awaited,
                              ret, written >>
         ELSE IF wrote
         THEN /\ sequence' = NextSequenceNumber(sequence)
              /\ awaited' = NextSequenceNumber(sequence)
              /\ written' = written + 1
              /\ pc' = AfterSend(op)
              /\ ret' = IF AfterSend(op) = "done" THEN "Ok" ELSE ret
              /\ maxIssued' = IF maxIssued = None
                                  \/ LessU32(maxIssued, NextSequenceNumber(sequence))
                               THEN NextSequenceNumber(sequence)
                               ELSE maxIssued
              /\ sends' = Succ(sends)
              /\ UNCHANGED << device, conn, reader, chan >>
         ELSE /\ pc' = "done"
              /\ ret' = "Err"
              /\ forget_device
              /\ UNCHANGED << awaited, written >>
    /\ UNCHANGED << opens, calls, op, result, begin, usedConn, ackTaken,
                    captured, stray, acquired >>
    /\ UNCHANGED auxVars

\* One iteration of the loop of Device::receive_ok_capture, with the
\* caller's collector, and the return through with_device when it ends.
receive_ok_capture ==
    /\ pc = "receive_ok"
    /\ LET received == receive
           outcome  == ReceiveOkMatch(received, awaited)
           coll     == Collect(op, received.body, result, begin)
       IN
       CASE outcome = "Ok" ->
              /\ pc' = "done"
              /\ ackTaken' = TRUE
              /\ ret' = AfterOk(op, result)
              /\ IF AfterOk(op, result) = "Err"
                 THEN forget_device
                 ELSE chan' = rest /\ UNCHANGED << device, conn, sequence, reader, maxIssued, sends >>
              /\ UNCHANGED << result, begin, captured, stray >>
         [] outcome = "ErrResponse" ->
              /\ pc' = "done"
              /\ ackTaken' = TRUE
              /\ ret' = "Err"
              /\ forget_device
              /\ UNCHANGED << result, begin, captured, stray >>
         [] outcome = "ErrTransport" ->
              /\ pc' = "done"
              /\ ret' = "Err"
              /\ forget_device
              /\ UNCHANGED << result, begin, captured, stray, ackTaken >>
         [] outcome = "Capture" ->
              /\ chan' = rest
              /\ captured' = IF IsAck(received) /\ received.body.seq # None
                               THEN received.body ELSE captured
              /\ result' = coll.result
              /\ begin' = coll.begin
              /\ stray' = (stray \/ (received.body.type = "Net" /\ ~begin
                                      /\ Len(coll.result) > Len(result)))
              /\ UNCHANGED << device, conn, sequence, reader, maxIssued, sends, pc, ret, ackTaken >>
         [] OTHER ->
              /\ chan' = rest
              /\ UNCHANGED << device, conn, sequence, reader, maxIssued, sends, pc, ret, ackTaken,
                              result, begin, captured, stray >>
    /\ UNCHANGED << opens, calls, op, awaited, written, usedConn, acquired >>
    /\ UNCHANGED auxVars

\* One iteration of the loop of Device::raw.
raw ==
    /\ pc = "raw"
    /\ LET received == receive IN
       CASE received.kind = "Message" /\ received.body.type \in {"Ok", "Error"} ->
              /\ pc' = "done"
              /\ ret' = IF received.body.type = "Ok" THEN "Ok" ELSE "OkFalse"
              /\ ackTaken' = (received.body.seq = awaited)
              /\ chan' = rest
              /\ UNCHANGED << device, conn, sequence, reader, maxIssued, sends, result >>
         [] received.kind = "Message" /\ received.body.type \notin {"Ok", "Error"} ->
              /\ result' = Append(result, received.body)
              /\ chan' = rest
              /\ UNCHANGED << device, conn, sequence, reader, maxIssued, sends, pc, ret, ackTaken >>
         [] OTHER ->
              /\ pc' = "done"
              /\ ret' = "Err"
              /\ forget_device
              /\ UNCHANGED << result, ackTaken >>
    /\ UNCHANGED << opens, calls, op, awaited, begin, written, usedConn,
                    captured, stray, acquired >>
    /\ UNCHANGED auxVars

\* One iteration of the first loop of Device::bridgelist.
bridgelist ==
    /\ pc = "bridgelist"
    /\ LET received == receive IN
       IF received.kind = "Message" /\ received.body.type = "Bridgelist"
       THEN /\ result' = << received.body >>
            /\ pc' = "receive_ok"
       ELSE UNCHANGED << result, pc >>
    /\ chan' = rest
    /\ UNCHANGED << device, conn, sequence, reader, maxIssued, sends, opens, calls, op, awaited,
                    begin, ret, written, usedConn, ackTaken, captured, stray,
                    acquired >>
    /\ UNCHANGED auxVars

\* reader_thread: a line starting with "::" arrives, is parsed and sent; a
\* panic inside the parser unwinds the thread.
reader_line(line) ==
    /\ ReaderMayStep
    /\ device = "Some"
    /\ reader = "running"
    /\ Len(chan) < MaxQueue
    /\ line.type \in {"::ok", "::error"}
         \/ Len(chan) + (IF pc \in {"receive_ok", "raw"} THEN Len(result) ELSE 0)
              < MaxResult
    /\ IF message(line).panic
       THEN chan' = chan /\ reader' = "exiting"
       ELSE chan' = Append(chan, parse_received(line)) /\ reader' = reader
    /\ UNCHANGED << device, conn, sequence, maxIssued, sends, opens, calls, callVars >>
    /\ UNCHANGED auxVars

\* Variant: the reader reports the IO error and goes on reading.
reader_io_error_continues ==
    /\ ReaderMayStep
    /\ device = "Some"
    /\ reader = "running"
    /\ Len(chan) < MaxQueue
    /\ chan' = Append(chan, ReceivedError("Read from serial port failed"))
    /\ UNCHANGED << device, conn, sequence, reader, maxIssued, sends, opens, calls, callVars >>
    /\ UNCHANGED auxVars

\* reader_thread: the read fails with a non-timeout IO error.
reader_io_error ==
    /\ ReaderMayStep
    /\ device = "Some"
    /\ reader = "running"
    /\ Len(chan) < MaxQueue
    /\ chan' = Append(chan, ReceivedError("Read from serial port failed"))
    /\ reader' = "exiting"
    /\ UNCHANGED << device, conn, sequence, maxIssued, sends, opens, calls, callVars >>
    /\ UNCHANGED auxVars

\* reader_thread: lines.next() returns None.
reader_eof ==
    /\ ReaderMayStep
    /\ device = "Some"
    /\ reader = "running"
    /\ reader' = "exiting"
    /\ UNCHANGED << device, conn, sequence, chan, maxIssued, sends, opens, calls, callVars >>
    /\ UNCHANGED auxVars

\* The reader thread's function has returned: is_finished() is now true.
\* Only device() looks at it, at the start of a call.
reader_finished ==
    /\ ~Over
    /\ pc = "idle"
    /\ reader = "exiting"
    /\ reader' = "finished"
    /\ UNCHANGED << device, conn, sequence, chan, maxIssued, sends, opens, calls, callVars >>
    /\ UNCHANGED auxVars

\* ---------------------------------------------------------- specification
\* The port path given to DeviceManager::new: "/dev/ttyACM0".
FixedPath == 5

\* The finer-grained views are at rest; the manager is in fixed-path mode.
Clients == 1..MaxClients

\* The server's handlers are at rest.
InitSrv ==
    /\ mutex = 0
    /\ poisoned = FALSE
    /\ hpc = [c \in Clients |-> "idle"]
    /\ hleft = [c \in Clients |-> 0]
    /\ hawaited = [c \in Clients |-> U32(0)]
    /\ actor = 0

\* The threads that log: the caller (tag SEND) and the reader (tag RECV).
Tags == {"SEND", "RECV"}

\* FileLogger::new: the file is followed from the entries of this run.
InitLog ==
    /\ file = << >>
    /\ guard = "free"
    /\ filePoisoned = FALSE
    /\ wpc = [t \in Tags |-> "idle"]
    /\ part = [t \in Tags |-> 1]
    /\ entries = 0

\* No conversion has been applied yet.
InitTypes ==
    /\ call = "-"
    /\ number = 0
    /\ textIn = NoText
    /\ nodeOut = Failed
    /\ shown = NoText
    /\ again = Failed
    /\ colorIn = << 0, 0, 0 >>
    /\ colorText = << >>
    /\ colorOut = [ok |-> FALSE, value |-> << 0, 0, 0 >>]

\* NodeFile::default(), and a board without bridges.
InitLists ==
    /\ nodefile = << >>
    /\ combined = << >>
    /\ fcall = "-"
    /\ farg = << >>

\* Outcomes of lines.next(): a line, Err(TimedOut), another Err, or None.
Read(what, line) == [what |-> what, line |-> line]
NoRead == Read("-", [type |-> "-", seq |-> None, idx |-> 0, nodes |-> << >>, rest |-> << >>])

InitExt ==
    /\ InitSrv /\ InitLog /\ InitTypes /\ InitLists
    /\ lastRead = NoRead
    /\ emitted = [call |-> 0, pos |-> 0]
    /\ readLog = << >> /\ taken = << >>
    /\ working = [conn |-> 0, seq |-> U32(0), busy |-> FALSE] /\ origin = << >>
    /\ entry = "-" /\ submitted = << >>
    /\ uploaded = [sent |-> FALSE, nets |-> << >>]

InitAux ==
    /\ InitExt
    /\ stop = 0
    /\ rpos = "check"
    /\ dropped = "no"
    /\ late = FALSE
    /\ ports = << >>
    /\ found = [result |-> "-", ports |-> << >>]
    /\ path = FixedPath
    /\ discovered = FALSE

InitCall ==
    /\ calls = 0
    /\ pc = "idle"
    /\ op = "noop"
    /\ awaited = U32(0)
    /\ result = << >>
    /\ begin = FALSE
    /\ ret = "Pending"
    /\ written = 0
    /\ usedConn = 0
    /\ ackTaken = FALSE
    /\ captured = NoMessage
    /\ stray = FALSE
    /\ acquired = "-"
    /\ InitAux

\* DeviceManager::new: no Device yet.
Init ==
    /\ device = "None"
    /\ conn = 0
    /\ opens = 0
    /\ sequence = U32(0)
    /\ reader = "none"
    /\ chan = << >>
    /\ maxIssued = None
    /\ sends = U32(0)
    /\ openedPath = 0
    /\ InitCall

Next ==
    \/ \E o \in Ops : WithDeviceAlive(o)
    \/ \E o \in Ops : WithDeviceOpen(o)
    \/ \E o \in Ops : WithDeviceOpenErr(o)
    \/ with_device_return
    \/ send_instruction
    \/ receive_ok_capture
    \/ raw
    \/ bridgelist
    \/ \E line \in Lines : reader_line(line)
    \/ reader_io_error
    \/ reader_eof
    \/ reader_finished

Spec == Init /\ [][Next]_vars

\* The caller's thread keeps running: a send completes, and a receive returns
\* with the next queued item or, RESPONSE_TIMEOUT later, with the timeout.
FairSpec ==
    /\ Spec
    /\ WF_vars(send_instruction)
    /\ WF_vars(receive_ok_capture)
    /\ WF_vars(raw)
    /\ WF_vars(bridgelist)

\* A Device on which u32::MAX - 1 instructions have been sent already.
InitLongLived ==
    /\ device = "Some"
    /\ conn = 1
    /\ opens = 1
    /\ sequence = [hi |-> Limb - 1, lo |-> Limb - 2]
    /\ reader = "running"
    /\ chan = << >>
    /\ maxIssued = [hi |-> Limb - 1, lo |-> Limb - 2]
    /\ sends = [hi |-> Limb - 1, lo |-> Limb - 2]
    /\ openedPath = FixedPath
    /\ InitCall

SpecLongLived == InitLongLived /\ [][Next]_vars

\* ------------------------------------------------- Drop of one Device
\* The reader loop is followed statement by statement here: the stop check
\* at the top of the loop and the blocking read are separate steps, and
\* Drop::drop is the send on the stop channel followed by the join.

\* A line that is not protocol traffic (firmware debug output).
DebugLine == Line("debug", None, 0)

\* Variant: every line counts as protocol traffic.
starts_with_colons_any(line) == TRUE

\* line.starts_with("::")
starts_with_colons(line) == line # DebugLine

\* Counted as activity of the reader after drop() has returned.
AfterDrop == late \/ dropped = "returned"

\* Room in the channel: nothing is received once drop() has begun, and the
\* reader gets through at most one more read after the stop signal.
ChannelRoom == Len(chan) < MaxQueue + (IF dropped = "no" THEN 0 ELSE 1)

\* reader_thread: `if let Ok(()) = stop.try_recv() { return; }`
reader_check_stop ==
    /\ reader = "running"
    /\ rpos = "check"
    /\ IF stop > 0
       THEN /\ stop' = stop - 1
            /\ reader' = "exiting"
            /\ rpos' = rpos
       ELSE /\ rpos' = "read"
            /\ UNCHANGED << stop, reader >>
    /\ UNCHANGED << dropped, late, device, conn, opens, sequence, chan, calls,
                    callVars, maxIssued, sends >>
    /\ UNCHANGED << portVars, pathVars, extVars >>

\* reader_thread: lines.next() yields a line; it is logged and, when it
\* starts with "::", parsed and sent.  (readLog and taken are written by the
\* specification that follows the lines, see FifoSpec.)
reader_read_line(line) ==
    /\ reader = "running"
    /\ rpos = "read"
    /\ ChannelRoom
    /\ IF starts_with_colons(line) /\ message(line).panic
       THEN chan' = chan /\ reader' = "exiting"
       ELSE /\ chan' = IF starts_with_colons(line)
                       THEN Append(chan, parse_received(line))
                       ELSE chan
            /\ reader' = reader
    /\ rpos' = "check"
    /\ late' = AfterDrop
    /\ UNCHANGED << stop, dropped, device, conn, opens, sequence, calls,
                    callVars, maxIssued, sends >>
    /\ lastRead' = Read("line", line)
    /\ UNCHANGED << portVars, pathVars, otherExt, boardVars, uploadVars >>

\* reader_thread: lines.next() yields Err(TimedOut), PORT_TIMEOUT after the
\* device fell silent.
reader_read_timeout ==
    /\ reader = "running"
    /\ rpos = "read"
    /\ rpos' = "check"
    /\ late' = AfterDrop
    /\ UNCHANGED << stop, dropped, device, conn, opens, sequence, reader, chan,
                    calls, callVars, maxIssued, sends >>
    /\ lastRead' = Read("timeout", NoRead.line)
    /\ UNCHANGED << portVars, pathVars, otherExt, moreVars >>

\* reader_thread: lines.next() yields another error, or None.
reader_read_fails(eof) ==
    /\ reader = "running"
    /\ rpos = "read"
    /\ ChannelRoom
    /\ chan' = IF eof THEN chan
               ELSE Append(chan, ReceivedError("Read from serial port failed"))
    /\ reader' = "exiting"
    /\ late' = AfterDrop
    /\ UNCHANGED << stop, rpos, dropped, device, conn, opens, sequence, calls,
                    callVars, maxIssued, sends >>
    /\ lastRead' = Read(IF eof THEN "eof" ELSE "error", NoRead.line)
    /\ UNCHANGED << portVars, pathVars, otherExt, moreVars >>

\* The reader thread's function has returned.
reader_thread_ends ==
    /\ reader = "exiting"
    /\ reader' = "finished"
    /\ UNCHANGED << dropVars, device, conn, opens, sequence, chan, calls,
                    callVars, maxIssued, sends >>
    /\ UNCHANGED << portVars, pathVars, extVars >>

\* The owner receives from the channel while it still holds the Device.
owner_receives ==
    /\ dropped = "no"
    /\ chan # << >>
    /\ chan' = Tail(chan)
    /\ UNCHANGED << dropVars, device, conn, opens, sequence, reader, calls,
                    callVars, maxIssued, sends >>
    /\ UNCHANGED << portVars, pathVars, otherExt, readVars, boardVars, uploadVars >>

\* stop_reader_thread: `_ = send_stop.send(())`; the send fails, and is
\* ignored, when the reader has ended and its Receiver is gone.
send_stop ==
    /\ dropped = "no"
    /\ dropped' = "joining"
    /\ stop' = IF reader = "finished" THEN stop ELSE stop + 1
    /\ UNCHANGED << rpos, late, mainVars >>
    /\ UNCHANGED << portVars, pathVars, extVars >>

\* Variant: the thread is detached instead of joined.
thread_join_detached == TRUE

\* thread.join() returns once the thread has ended.
thread_join == reader = "finished"

\* stop_reader_thread: `_ = thread.join()`, then the Receiver and the Device
\* are gone.
stop_reader_thread_returns ==
    /\ dropped = "joining"
    /\ thread_join
    /\ dropped' = "returned"
    /\ device' = "None"
    /\ chan' = << >>
    /\ UNCHANGED << stop, rpos, late, conn, opens, sequence, reader, calls,
                    callVars, maxIssued, sends >>
    /\ UNCHANGED << portVars, pathVars, extVars >>

\* Device::new has returned: the reader thread is about to enter its loop.
InitDrop ==
    /\ device = "Some"
    /\ conn = 1
    /\ opens = 1
    /\ sequence = U32(0)
    /\ reader = "running"
    /\ chan = << >>
    /\ maxIssued = None
    /\ sends = U32(0)
    /\ openedPath = FixedPath
    /\ InitCall

NextDrop ==
    \/ reader_check_stop
    \/ \E line \in Lines \cup {DebugLine} :
         reader_read_line(line) /\ UNCHANGED fifoVars
    \/ reader_read_timeout
    \/ \E eof \in BOOLEAN : reader_read_fails(eof)
    \/ reader_thread_ends
    \/ owner_receives /\ UNCHANGED fifoVars
    \/ send_stop
    \/ stop_reader_thread_returns

\* The reader thread keeps being scheduled, its read returns (with a line,
\* or with TimedOut after PORT_TIMEOUT), and the dropping thread runs.
DropSpec ==
    /\ InitDrop /\ [][NextDrop]_vars
    /\ WF_vars(reader_check_stop)
    /\ WF_vars(reader_read_timeout \/ reader_read_fails(TRUE))
    /\ WF_vars(reader_thread_ends)
    /\ WF_vars(stop_reader_thread_returns)

\* ---------------------------------------------- parsing received lines
\* The reader of one Device is fed net records whose text from the colour
\* field on is arbitrary: up to MaxColor characters (a digit, a letter that
\* is a digit in base 16, one that is not, a non-ASCII character), followed
\* by the end of a well-formed record or by the end of the line.
ColorChars == {"0", "f", "g", "é"}

Texts(n) == UNION { [1..k -> ColorChars] : k \in 0..n }

ParseLines ==
    { NetLine(1, c \o t) : c \in Texts(MaxColor), t \in {<< >>, GoodTail} }

\* The owner receives each item before the next line arrives.
NextParse ==
    \/ \E line \in ParseLines : chan = << >> /\ reader_line(line)
    \/ owner_receives /\ UNCHANGED fifoVars
    \/ reader_finished

ParseSpec == InitDrop /\ [][NextParse]_vars

\* ------------------------------------------- port discovery, as a system
NotListed == [result |-> "-", ports |-> << >>]

\* A device node appears: available_ports() will list it after the others.
port_appears(p) ==
    /\ found = NotListed
    /\ Len(ports) < MaxPorts
    /\ MayFollow(ports, p)
    /\ ports' = Append(ports, p)
    /\ UNCHANGED << found, mainVars, dropVars, pathVars, extVars >>

\* DeviceManager::list_ports on the ports present, the map iterated in `order`.
list_ports(order) ==
    /\ found = NotListed
    /\ found' = [result |-> "Ok", ports |-> found_in_order(ports, order)]
    /\ UNCHANGED << ports, mainVars, dropVars, pathVars, extVars >>

\* DeviceManager::list_ports when available_ports() fails.
list_ports_fails ==
    /\ found = NotListed
    /\ found' = [result |-> "Err", ports |-> << >>]
    /\ UNCHANGED << ports, mainVars, dropVars, pathVars, extVars >>

\* A manager in dynamic mode, before its first call; no port present yet.
InitPorts ==
    /\ InitExt
    /\ ports = << >>
    /\ found = NotListed
    /\ path = 0 /\ openedPath = 0 /\ discovered = FALSE
    /\ stop = 0 /\ rpos = "check" /\ dropped = "no" /\ late = FALSE
    /\ device = "None" /\ conn = 0 /\ opens = 0 /\ sequence = U32(0)
    /\ reader = "none" /\ chan = << >> /\ maxIssued = None /\ sends = U32(0)
    /\ calls = 0 /\ pc = "idle" /\ op = "noop" /\ awaited = U32(0)
    /\ result = << >> /\ begin = FALSE /\ ret = "Pending" /\ written = 0
    /\ usedConn = 0 /\ ackTaken = FALSE /\ captured = NoMessage
    /\ stray = FALSE /\ acquired = "-"

NextPorts ==
    \/ \E p \in PortInfos : port_appears(p)
    \/ \E order \in KeyOrders(usb_ids(ports)) : list_ports(order)
    \/ list_ports_fails

PortSpec == InitPorts /\ [][NextPorts]_vars

\* ------------------------------------------------------------------ claims
\* ------------------------------------------------------------ HTTP server
\* Everything a handler's step leaves alone besides the shared Device.
srvOther ==
    << callVars, dropVars, portVars, pathVars, logVars, typeVars, listVars, readVars, replyVars,
       moreVars >>

\* Operations a handler's closure runs: status() none, put_nets two
\* (set_netlist, then netlist), every other handler one.
HandlerOps == 0..2

InClosure(c) == hpc[c] \in {"send", "receive"}

\* The guard is dropped: at the end of the handler's statement, or while
\* the handler unwinds.
unlock(c) == mutex' = IF mutex = c THEN 0 ELSE mutex

\* A request arrives and its handler is about to lock the manager.
handler_request(c) ==
    /\ hpc[c] = "idle"
    /\ calls < MaxCalls
    /\ calls' = calls + 1
    /\ hpc' = [hpc EXCEPT ![c] = "lock"]
    /\ actor' = c
    /\ UNCHANGED << mutex, poisoned, hleft, hawaited, devVars, opens >>
    /\ UNCHANGED srvOther

\* Variant: the guard is handed out whether or not another handler holds it.
lock_without_exclusion(c) ==
    /\ hpc[c] = "lock"
    /\ actor' = c
    /\ IF poisoned
       THEN hpc' = [hpc EXCEPT ![c] = "panicked"] /\ mutex' = mutex
       ELSE hpc' = [hpc EXCEPT ![c] = "locked"] /\ mutex' = c
    /\ UNCHANGED << poisoned, hleft, hawaited, devVars, opens, calls >>
    /\ UNCHANGED srvOther

\* `shared.device_manager.lock().unwrap()`: blocks while another handler
\* holds the guard; on a poisoned Mutex lock() returns Err and unwrap panics.
lock(c) ==
    /\ hpc[c] = "lock"
    /\ mutex = 0
    /\ actor' = c
    /\ IF poisoned
       THEN hpc' = [hpc EXCEPT ![c] = "panicked"] /\ mutex' = mutex
       ELSE hpc' = [hpc EXCEPT ![c] = "locked"] /\ mutex' = c
    /\ UNCHANGED << poisoned, hleft, hawaited, devVars, opens, calls >>
    /\ UNCHANGED srvOther

\* with_device under the guard: device() hands out the live Device or opens
\* one, and the closure starts; when open() fails the closure is not run.
handler_with_device(c, n) ==
    /\ hpc[c] = "locked"
    /\ actor' = c
    /\ \/ /\ device = "Some" /\ is_alive
          /\ UNCHANGED << devVars, opens >>
          /\ hleft' = [hleft EXCEPT ![c] = n]
          /\ hpc' = [hpc EXCEPT ![c] = IF n = 0 THEN "return" ELSE "send"]
       \/ /\ ~(device = "Some" /\ is_alive)
          /\ open
          /\ hleft' = [hleft EXCEPT ![c] = n]
          /\ hpc' = [hpc EXCEPT ![c] = IF n = 0 THEN "return" ELSE "send"]
       \/ /\ ~(device = "Some" /\ is_alive)
          /\ UNCHANGED << devVars, opens, hleft >>
          /\ hpc' = [hpc EXCEPT ![c] = "return"]
    /\ UNCHANGED << mutex, poisoned, hawaited, calls >>
    /\ UNCHANGED srvOther

\* The closure's operation calls send_instruction.
handler_send(c) ==
    /\ hpc[c] = "send"
    /\ actor' = c
    /\ \E outcome \in SequenceOutcomes(sequence), wrote \in BOOLEAN :
         IF outcome = "panic"
         THEN /\ hpc' = [hpc EXCEPT ![c] = "panicked"]
              /\ poisoned' = TRUE
              /\ unlock(c)
              /\ sequence' = NextSequenceNumber(sequence)
              /\ sends' = Succ(sends)
              /\ UNCHANGED << device, conn, reader, chan, maxIssued, hawaited >>
         ELSE IF wrote
         THEN /\ sequence' = NextSequenceNumber(sequence)
              /\ hawaited' = [hawaited EXCEPT ![c] = NextSequenceNumber(sequence)]
              /\ hpc' = [hpc EXCEPT ![c] = "receive"]
              /\ sends' = Succ(sends)
              /\ UNCHANGED << device, conn, reader, chan, maxIssued, mutex, poisoned >>
         ELSE /\ forget_device
              /\ hpc' = [hpc EXCEPT ![c] = "return"]
              /\ UNCHANGED << hawaited, mutex, poisoned >>
    /\ UNCHANGED << hleft, opens, calls >>
    /\ UNCHANGED srvOther

\* One iteration of the operation's receive loop.
handler_receive(c) ==
    /\ hpc[c] = "receive"
    /\ actor' = c
    /\ LET outcome == ReceiveOkMatch(receive, hawaited[c]) IN
       CASE outcome = "Ok" ->
              /\ chan' = rest
              /\ hleft' = [hleft EXCEPT ![c] = hleft[c] - 1]
              /\ hpc' = [hpc EXCEPT ![c] = IF hleft[c] > 1 THEN "send" ELSE "return"]
              /\ UNCHANGED << device, conn, sequence, reader, maxIssued, sends >>
         [] outcome \in {"ErrResponse", "ErrTransport"} ->
              /\ forget_device
              /\ hpc' = [hpc EXCEPT ![c] = "return"]
              /\ UNCHANGED hleft
         [] OTHER ->
              /\ chan' = rest
              /\ UNCHANGED << device, conn, sequence, reader, maxIssued, sends, hpc, hleft >>
    /\ UNCHANGED << mutex, poisoned, hawaited, opens, calls >>
    /\ UNCHANGED srvOther

\* with_device has returned and the handler's statement ends.
handler_return(c) ==
    /\ hpc[c] = "return"
    /\ actor' = c
    /\ unlock(c)
    /\ hpc' = [hpc EXCEPT ![c] = "idle"]
    /\ hleft' = [hleft EXCEPT ![c] = 0]
    /\ UNCHANGED << poisoned, hawaited, devVars, opens, calls >>
    /\ UNCHANGED srvOther

\* The reader thread of the shared Device queues a message.
server_reader(m) ==
    /\ device = "Some"
    /\ reader = "running"
    /\ Len(chan) < MaxQueue
    /\ chan' = Append(chan, ReceivedMessage(m))
    /\ actor' = 0
    /\ UNCHANGED << device, conn, sequence, reader, maxIssued, sends, opens, calls >>
    /\ UNCHANGED << mutex, poisoned, hpc, hleft, hawaited >>
    /\ UNCHANGED srvOther

\* The reader thread of the shared Device ends.
server_reader_ends ==
    /\ device = "Some"
    /\ reader = "running"
    /\ reader' = "finished"
    /\ actor' = 0
    /\ UNCHANGED << device, conn, sequence, chan, maxIssued, sends, opens, calls >>
    /\ UNCHANGED << mutex, poisoned, hpc, hleft, hawaited >>
    /\ UNCHANGED srvOther

\* The server is followed from its start, with a manager that holds no
\* Device, and from a Device that has been in use for long.
InitServer == Init \/ InitLongLived

NextServer ==
    \/ \E c \in Clients :
         \/ handler_request(c)
         \/ lock(c)
         \/ \E n \in HandlerOps : handler_with_device(c, n)
         \/ handler_send(c)
         \/ handler_receive(c)
         \/ handler_return(c)
    \/ \E m \in {Ok(sequence), Net(1)} : server_reader(m)
    \/ server_reader_ends

ServerSpec == InitServer /\ [][NextServer]_vars

\* ------------------------------------------------------------ FileLogger
logOther ==
    << mainVars, dropVars, portVars, pathVars, srvVars, typeVars, listVars, readVars, replyVars,
       moreVars >>

\* `writeln!(file, "[{}] {} {}", time, tag, arg)` reaches the file as one
\* write per piece of the format string and per argument, the last piece
\* being the newline: "[", time, "] ", tag, " ", arg, "\n".
Pieces == 7

\* Device::send_instruction calls logger.sent, reader_thread calls
\* logger.received on its clone of the logger.
logger_write_line(t) ==
    /\ wpc[t] = "idle"
    /\ entries < MaxEntries
    /\ entries' = entries + 1
    /\ wpc' = [wpc EXCEPT ![t] = "lock"]
    /\ UNCHANGED << file, guard, filePoisoned, part >>
    /\ UNCHANGED logOther

\* Variant: the file is written without taking the lock.
file_lock_without_exclusion(t) ==
    /\ wpc[t] = "lock"
    /\ IF filePoisoned
       THEN wpc' = [wpc EXCEPT ![t] = "panicked"] /\ UNCHANGED << guard, part >>
       ELSE /\ wpc' = [wpc EXCEPT ![t] = "write"]
            /\ guard' = t
            /\ part' = [part EXCEPT ![t] = 1]
    /\ UNCHANGED << file, filePoisoned, entries >>
    /\ UNCHANGED logOther

\* `let file = &mut self.0.lock().unwrap();`
file_lock(t) ==
    /\ wpc[t] = "lock"
    /\ guard = "free"
    /\ IF filePoisoned
       THEN wpc' = [wpc EXCEPT ![t] = "panicked"] /\ UNCHANGED << guard, part >>
       ELSE /\ wpc' = [wpc EXCEPT ![t] = "write"]
            /\ guard' = t
            /\ part' = [part EXCEPT ![t] = 1]
    /\ UNCHANGED << file, filePoisoned, entries >>
    /\ UNCHANGED logOther

\* One write of writeln!; after the last one write_line returns and the
\* guard is dropped.
writeln(t) ==
    /\ wpc[t] = "write"
    /\ file' = Append(file, [tag |-> t, part |-> part[t]])
    /\ IF part[t] = Pieces
       THEN /\ wpc' = [wpc EXCEPT ![t] = "idle"]
            /\ guard' = IF guard = t THEN "free" ELSE guard
            /\ part' = [part EXCEPT ![t] = 1]
       ELSE /\ part' = [part EXCEPT ![t] = part[t] + 1]
            /\ UNCHANGED << wpc, guard >>
    /\ UNCHANGED << filePoisoned, entries >>
    /\ UNCHANGED logOther

\* A write fails: `.expect("Write to log file")` panics, the guard is dropped
\* while the thread unwinds and the Mutex is poisoned.
writeln_fails(t) ==
    /\ wpc[t] = "write"
    /\ wpc' = [wpc EXCEPT ![t] = "panicked"]
    /\ guard' = IF guard = t THEN "free" ELSE guard
    /\ filePoisoned' = TRUE
    /\ UNCHANGED << file, part, entries >>
    /\ UNCHANGED logOther

NextLog ==
    \E t \in Tags :
       \/ logger_write_line(t)
       \/ file_lock(t)
       \/ writeln(t)
       \/ writeln_fails(t)

LogSpec == Init /\ [][NextLog]_vars

\* ------------------------------------------------ conversions of types.rs
\* Each behaviour applies one conversion to one input.
typeOther ==
    << mainVars, dropVars, portVars, pathVars, srvVars, logVars, listVars, readVars, replyVars,
       moreVars >>

\* What is recorded of a Node result: its text form and that form parsed.
Shown(r) ==
    /\ nodeOut' = r
    /\ shown' = IF r.ok THEN Node_fmt(r.node) ELSE NoText
    /\ again' = IF r.ok THEN Node_parse(Node_fmt(r.node)) ELSE Failed

\* Decimal texts of the integer v: plain, with a `+` and with a leading zero.
DecimalTexts(v) ==
    IF v < 0 THEN {Decimal(v)}
    ELSE {Decimal(v), Digits("+", DecimalDigits(v)), Digits("", << 0 >> \o DecimalDigits(v))}

Numbers == (0 - MaxNumber)..MaxNumber

\* Node::parse on the decimal text of an integer.
parse_number(v, text) ==
    /\ call = "-"
    /\ call' = "parse_number"
    /\ number' = v
    /\ textIn' = text
    /\ Shown(Node_parse(text))
    /\ UNCHANGED << colorIn, colorText, colorOut >>
    /\ UNCHANGED typeOther

\* The Node deserializer on a JSON number: serde_json hands a non-negative
\* integer to visit_u64; NodeVisitor has no visit_i64, so a negative one is
\* an "invalid type" error.
deserialize_number(v) ==
    /\ call = "-"
    /\ call' = "deserialize_number"
    /\ number' = v
    /\ textIn' = NoText
    /\ Shown(IF v >= 0 THEN visit_u64(v) ELSE Failed)
    /\ UNCHANGED << colorIn, colorText, colorOut >>
    /\ UNCHANGED typeOther

\* Names handed to Node::parse: every name of an arm and two unknown ones.
Names == {a[1] : a \in Arms} \cup {"gnd", "NANO_D14"}

\* Node::parse on a name.
parse_name(w) ==
    /\ call = "-"
    /\ call' = "parse_name"
    /\ number' = 0
    /\ textIn' = Word(w)
    /\ Shown(Node_parse(Word(w)))
    /\ UNCHANGED << colorIn, colorText, colorOut >>
    /\ UNCHANGED typeOther

\* to_string of a named Node, parsed again.
name_to_string(i) ==
    /\ call = "-"
    /\ call' = "to_string"
    /\ number' = i
    /\ textIn' = NoText
    /\ Shown(Some(Named(i)))
    /\ UNCHANGED << colorIn, colorText, colorOut >>
    /\ UNCHANGED typeOther

\* Bytes of a colour channel while the other two are taken from Bytes.
Bytes == {0, 9, 10, 15, 16, 160, U8Max}

\* The colour whose channel ch is v and whose other two channels are a, b.
ColorOf(ch, v, a, b) ==
    IF ch = 1 THEN << v, a, b >> ELSE IF ch = 2 THEN << a, v, b >> ELSE << a, b, v >>

\* to_string of a Color, and Color::try_from of the text.
color_to_string(c) ==
    /\ call = "-"
    /\ call' = "color"
    /\ colorIn' = c
    /\ colorText' = Color_fmt(c)
    /\ colorOut' = Color_try_from(Color_fmt(c))
    /\ UNCHANGED << number, textIn, nodeOut, shown, again >>
    /\ UNCHANGED typeOther

NextTypes ==
    \/ call = "-" /\ \E v \in Numbers : \E text \in DecimalTexts(v) : parse_number(v, text)
    \/ call = "-" /\ \E v \in Numbers : deserialize_number(v)
    \/ call = "-" /\ \E w \in Names : parse_name(w)
    \/ call = "-" /\ \E i \in 1..Len(NodeNames) : name_to_string(i)
    \/ call = "-" /\ \E ch \in 1..3, v \in 0..U8Max, a \in Bytes, b \in Bytes :
                        color_to_string(ColorOf(ch, v, a, b))

TypesSpec == Init /\ [][NextTypes]_vars

\* ------------------------------------------------- NodeFile and Bridgelist
listOther ==
    << mainVars, dropVars, portVars, pathVars, srvVars, logVars, typeVars, readVars, replyVars,
       moreVars >>

\* derive(PartialEq) on Node, and == on the tuple (Node, Node): by component.
tuple_eq(p, q) == p[1] = q[1] /\ p[2] = q[2]

\* Variant: Connections are equal only in the same orientation.
Connection_eq_ordered(p, q) == p[1] = q[1] /\ p[2] = q[2]

\* impl PartialEq for Connection
Connection_eq(p, q) ==
    (p[1] = q[1] /\ p[2] = q[2]) \/ (p[1] = q[2] /\ p[2] = q[1])

\* NodeFile::has
has(nf, connection) == \E i \in 1..Len(nf) : Connection_eq(nf[i], connection)

\* NodeFile::add_connection, as a function of the Vec
add_one(nf, connection) == IF has(nf, connection) THEN nf ELSE Append(nf, connection)

\* NodeFile::remove_connection: retain keeps the order of what stays.
RECURSIVE remove_one(_, _)
remove_one(nf, connection) ==
    IF nf = << >> THEN nf
    ELSE IF Connection_eq(nf[1], connection) THEN remove_one(Tail(nf), connection)
    ELSE << nf[1] >> \o remove_one(Tail(nf), connection)

\* The loops of add_from and remove_from over other.0
RECURSIVE add_all(_, _)
add_all(nf, other) ==
    IF other = << >> THEN nf ELSE add_all(add_one(nf, other[1]), Tail(other))

RECURSIVE remove_all(_, _)
remove_all(nf, other) ==
    IF other = << >> THEN nf ELSE remove_all(remove_one(nf, other[1]), Tail(other))

\* Vec::contains on a Bridgelist
contains(list, bridge) == \E i \in 1..Len(list) : tuple_eq(list[i], bridge)

\* The loop of BridgeCommand::Add
RECURSIVE push_new(_, _)
push_new(list, bridges) ==
    IF bridges = << >> THEN list
    ELSE push_new(IF contains(list, bridges[1]) THEN list ELSE Append(list, bridges[1]),
                  Tail(bridges))

\* Nodes and pairs the lists are built from.
ListNodes == {Column(7), Column(13), Named(1)}
Pairs     == {p \in ListNodes \X ListNodes : p[1] # p[2]}
                \cup {<< Column(7), Column(7) >>}

\* What NodeFile::parse or the bridge parser yields for the argument: one or
\* two pairs, possibly the same pair twice.
Others == {<< p >> : p \in Pairs} \cup {<< p, q >> : p \in Pairs, q \in Pairs}

add_connection(connection) ==
    /\ Len(nodefile) < MaxConnections
    /\ nodefile' = add_one(nodefile, connection)
    /\ fcall' = "add_connection"
    /\ farg' = << connection >>
    /\ UNCHANGED combined
    /\ UNCHANGED listOther

remove_connection(connection) ==
    /\ nodefile' = remove_one(nodefile, connection)
    /\ fcall' = "remove_connection"
    /\ farg' = << connection >>
    /\ UNCHANGED combined
    /\ UNCHANGED listOther

add_from(other) ==
    /\ Len(nodefile) + Len(other) <= MaxConnections
    /\ nodefile' = add_all(nodefile, other)
    /\ fcall' = "add_from"
    /\ farg' = other
    /\ UNCHANGED combined
    /\ UNCHANGED listOther

remove_from(other) ==
    /\ nodefile' = remove_all(nodefile, other)
    /\ fcall' = "remove_from"
    /\ farg' = other
    /\ UNCHANGED combined
    /\ UNCHANGED listOther

NextNodeFile ==
    \/ \E connection \in Pairs : add_connection(connection)
    \/ \E connection \in Pairs : remove_connection(connection)
    \/ \E other \in Others : add_from(other)
    \/ \E other \in Others : remove_from(other)

NodeFileSpec == Init /\ [][NextNodeFile]_vars

\* `jlctl bridge add`: the board's list, every given bridge it does not
\* contain pushed, is sent back as the new list.
BridgeCommand_Add(bridges) ==
    /\ Len(combined) + Len(bridges) <= MaxConnections
    /\ combined' = push_new(combined, bridges)
    /\ fcall' = "bridge add"
    /\ farg' = bridges
    /\ UNCHANGED nodefile
    /\ UNCHANGED listOther

\* `jlctl bridge clear`
BridgeCommand_Clear ==
    /\ combined # << >>
    /\ combined' = << >>
    /\ fcall' = "bridge clear"
    /\ farg' = << >>
    /\ UNCHANGED nodefile
    /\ UNCHANGED listOther

NextBridges ==
    \/ \E bridges \in Others : BridgeCommand_Add(bridges)
    \/ BridgeCommand_Clear

BridgeSpec == Init /\ [][NextBridges]_vars

\* ----------------------------------------------- the sample netlist reply
\* parser.rs INITIAL_NETLIST: the node list of each of its net lines, and
\* the text of each from the colour field on.
SampleNodes == <<
    << Word("GND") >>,
    << Word("5V") >>,
    << Word("3V3") >>,
    << Word("DAC_0") >>,
    << Word("DAC_1") >>,
    << Word("I_POS") >>,
    << Word("I_NEG") >> >>

SampleRests == <<
    << "0", "0", "1", "c", "0", "4", ",", "f", "a", "l", "s", "e", ",", "G", "N", "D", "]" >>,
    << "1", "c", "0", "7", "0", "2", ",", "f", "a", "l", "s", "e", ",", "+", "5", "V", "]" >>,
    << "1", "c", "0", "1", "0", "7", ",", "f", "a", "l", "s", "e", ",", "+", "3", ".", "3", "V", "]" >>,
    << "2", "3", "1", "1", "1", "1", ",", "f", "a", "l", "s", "e", ",", "D", "A", "C", " ", "0", "]" >>,
    << "2", "3", "0", "9", "1", "3", ",", "f", "a", "l", "s", "e", ",", "D", "A", "C", " ", "1", "]" >>,
    << "2", "3", "2", "3", "2", "3", ",", "f", "a", "l", "s", "e", ",", "I", " ", "S", "e", "n", "s", "e", " ", "+", "]" >>,
    << "2", "3", "2", "3", "2", "3", ",", "f", "a", "l", "s", "e", ",", "I", " ", "S", "e", "n", "s", "e", " ", "-", "]" >> >>

SampleNet(i) ==
    [type |-> "::net", seq |-> None, idx |-> i, nodes |-> SampleNodes[i],
     rest |-> SampleRests[i]]

\* The reply to the request numbered seqno: the bracket, the net lines in
\* between, and the acknowledgement.
Transcript(seqno) ==
    << Line("::netlist-begin", None, 0) >>
    \o [i \in 1..Len(SampleNodes) |-> SampleNet(i)]
    \o << Line("::netlist-end", None, 0), Line("::ok", seqno, 0) >>

\* The board sends the next line of its reply to the request the caller is
\* waiting on, and the reader thread parses and queues it.
device_replies ==
    /\ pc = "receive_ok"
    /\ op = "netlist"
    /\ device = "Some"
    /\ reader = "running"
    /\ LET pos == IF emitted.call = calls THEN emitted.pos ELSE 0 IN
       /\ pos < Len(Transcript(awaited))
       /\ emitted' = [call |-> calls, pos |-> pos + 1]
       /\ IF message(Transcript(awaited)[pos + 1]).panic
          THEN chan' = chan /\ reader' = "exiting"
          ELSE /\ chan' = Append(chan, parse_received(Transcript(awaited)[pos + 1]))
               /\ reader' = reader
    /\ UNCHANGED << device, conn, sequence, maxIssued, sends, opens, calls, callVars >>
    /\ UNCHANGED << dropVars, portVars, pathVars, srvVars, logVars, typeVars,
                    listVars, readVars, moreVars >>

NextNetlist ==
    \/ WithDeviceAlive("netlist")
    \/ WithDeviceOpen("netlist")
    \/ with_device_return
    \/ send_instruction
    \/ receive_ok_capture
    \/ device_replies

NetlistSpec == Init /\ [][NextNetlist]_vars

\* ------------------------------------------- the manager in dynamic mode
\* DeviceManager::new(None): port_path runs list_ports at every open.

\* The closures followed here: one that succeeds and one that fails, both
\* without touching the Device.
DynamicOps == {"noop", "fail"}

\* A device node appears between two calls.
port_plugged(p) ==
    /\ pc = "idle"
    /\ calls < MaxCalls
    /\ Len(ports) < MaxPlugged
    /\ MayFollow(ports, p)
    /\ ports' = Append(ports, p)
    /\ UNCHANGED << found, mainVars, dropVars, pathVars, extVars >>

NextDynamic ==
    \/ \E p \in PortInfos : port_plugged(p)
    \/ \E o \in DynamicOps : WithDeviceAlive(o)
    \/ \E o \in DynamicOps : WithDeviceOpen(o)
    \/ \E o \in DynamicOps : WithDeviceOpenErr(o)
    \/ with_device_return

DynamicSpec == InitPorts /\ [][NextDynamic]_vars

\* ------------------------------------------- open(), statement by statement
\* `let device = Device::new(..)?;` and `self.device = Some(device);` are
\* separate steps here: between them the new Device is a local of open().

\* The Devices in existence, each owning its serial handle: the one the
\* manager holds and, inside open(), the one Device::new has returned.
Transports ==
    (IF device = "Some" THEN {conn} ELSE {})
        \cup (IF pc = "opening" THEN {opens + 1} ELSE {})

\* device() finds no live Device and calls open(): port_path() yields a path
\* and Device::new succeeds on it (port opened, reader thread started).
open_Device_new(o) ==
    /\ pc = "idle"
    /\ calls < MaxCalls
    /\ ~(device = "Some" /\ is_alive)
    /\ calls' = calls + 1
    /\ ResetCall(o)
    /\ acquired' = IF device = "None" THEN "opened" ELSE "reopened"
    /\ \E order \in KeyOrders(usb_ids(ports)) :
         /\ port_path(order, TRUE).ok
         /\ openedPath' = port_path(order, TRUE).name
         /\ discovered' = (discovered \/ port_path(order, TRUE).listed)
    /\ pc' = "opening"
    /\ UNCHANGED << devVars, opens, ret, usedConn >>
    /\ UNCHANGED << path, dropVars, portVars, extVars >>

\* `self.device = Some(device)`: the value held before is dropped, the new
\* Device is stored, and with_device runs the closure on it.
open_assign ==
    /\ pc = "opening"
    /\ IF op = "fail"
       THEN RunClosure(op, opens + 1, TRUE) /\ opens' = opens + 1
       ELSE RunClosure(op, opens + 1, open)
    /\ UNCHANGED << calls, op, awaited, result, begin, written, ackTaken,
                    captured, stray, acquired >>
    /\ UNCHANGED auxVars

ReopenOps == {"noop", "fail", "set_bridgelist"}

NextReopen ==
    \/ \E o \in ReopenOps : WithDeviceAlive(o)
    \/ \E o \in ReopenOps : open_Device_new(o)
    \/ open_assign
    \/ \E o \in ReopenOps : WithDeviceOpenErr(o)
    \/ with_device_return
    \/ send_instruction
    \/ receive_ok_capture
    \/ \E line \in Lines : reader_line(line)
    \/ reader_io_error
    \/ reader_eof
    \/ reader_finished

ReopenSpec == Init /\ [][NextReopen]_vars

\* --------------------------------------- the lines read and the items taken
\* The reader loop and the owner of the Device as in DropSpec, with the
\* lines read and the items received written down.

\* An acknowledgement, a bracket line, a line parser::message does not know,
\* a net record whose colour field has a two-byte character at byte 1, and
\* firmware debug output.
FifoLines ==
    { Line("::ok", U32(1), 0), Line("::netlist-begin", None, 0),
      Line("::chipstatus-begin", None, 0),
      NetLine(1, << "0", "é" >> \o GoodTail), DebugLine }

NextFifo ==
    \/ reader_check_stop
    \/ \E line \in FifoLines :
         /\ Len(readLog) < MaxLines
         /\ reader_read_line(line)
         /\ readLog' = IF starts_with_colons(line) THEN Append(readLog, line)
                       ELSE readLog
         /\ UNCHANGED taken
    \/ reader_read_timeout
    \/ \E eof \in BOOLEAN : reader_read_fails(eof)
    \/ reader_thread_ends
    \/ /\ owner_receives
       /\ taken' = Append(taken, Head(chan))
       /\ UNCHANGED readLog
    \/ send_stop
    \/ stop_reader_thread_returns

FifoSpec == InitDrop /\ [][NextFifo]_vars

\* ------------------------------------------- a board that answers late
\* The board reads an instruction, executes it and acknowledges it when it
\* is done, however long that takes; the host may have given up and opened
\* the port anew by then.  Its acknowledgement is read by the reader thread
\* of whichever Device is open at that moment.

ReconnectOps == {"set_netlist", "netlist"}

\* The Device whose request the item at the head of the channel answers.
OriginOfHead == origin[Len(origin) - Len(chan) + 1]

\* The board has read the instruction the caller is waiting on.
board_takes_request ==
    /\ pc = "receive_ok"
    /\ device = "Some"
    /\ ~working.busy
    /\ << working.conn, working.seq >> # << conn, awaited >>
    /\ working' = [conn |-> conn, seq |-> awaited, busy |-> TRUE]
    /\ UNCHANGED << origin, fifoVars, uploadVars >>
    /\ UNCHANGED << mainVars, dropVars, portVars, pathVars, otherExt, readVars >>

\* The board acknowledges the instruction it has executed; the reader
\* thread of the open Device reads the line, parses it and sends it.
board_answers(t) ==
    /\ working.busy
    /\ ReaderMayStep
    /\ device = "Some"
    /\ reader = "running"
    /\ Len(chan) < MaxQueue
    /\ chan' = Append(chan, parse_received(Line(t, working.seq, 0)))
    /\ origin' = Append(SubSeq(origin, Len(origin) - Len(chan) + 1, Len(origin)),
                        working.conn)
    /\ working' = [working EXCEPT !.busy = FALSE]
    /\ UNCHANGED << device, conn, sequence, reader, maxIssued, sends, opens, calls,
                    callVars >>
    /\ UNCHANGED << fifoVars, uploadVars >>
    /\ UNCHANGED << dropVars, portVars, pathVars, otherExt, readVars >>

NextReconnect ==
    \/ \E o \in ReconnectOps : WithDeviceAlive(o)
    \/ \E o \in ReconnectOps : WithDeviceOpen(o)
    \/ \E o \in ReconnectOps : WithDeviceOpenErr(o)
    \/ with_device_return
    \/ send_instruction
    \/ receive_ok_capture
    \/ board_takes_request
    \/ \E t \in {"::ok", "::error"} : board_answers(t)

ReconnectSpec == Init /\ [][NextReconnect]_vars

\* ------------------------------------------------- uploading a netlist
\* A Net is followed by its index, name and nodes.  What set_netlist does
\* with its argument (send_instruction, receive_ok) is followed in Spec.
NetOf(index, name, nds) == [index |-> index, name |-> name, nodes |-> nds]

\* validate.rs SPECIAL_NETS
SPECIAL_NETS == <<
    NetOf(1, "GND", {Named(1)}),
    NetOf(2, "+5V", {Named(2)}),
    NetOf(3, "+3.3V", {Named(3)}),
    NetOf(4, "DAC 0", {Named(4)}),
    NetOf(5, "DAC 1", {Named(5)}),
    NetOf(6, "I Sense +", {Named(7)}),
    NetOf(7, "I Sense -", {Named(6)}) >>

\* validate::netlist: Err on an index seen before; then Err unless every
\* special net is there under its name and with its node; else the list.
validate_netlist(nets) ==
    IF \E i, j \in 1..Len(nets) : i < j /\ nets[i].index = nets[j].index
    THEN [ok |-> FALSE, nets |-> << >>]
    ELSE IF \E k \in 1..Len(SPECIAL_NETS) :
              \/ \A i \in 1..Len(nets) : nets[i].index # SPECIAL_NETS[k].index
              \/ \E i \in 1..Len(nets) :
                   /\ nets[i].index = SPECIAL_NETS[k].index
                   /\ \/ nets[i].name # SPECIAL_NETS[k].name
                      \/ ~(SPECIAL_NETS[k].nodes \subseteq nets[i].nodes)
    THEN [ok |-> FALSE, nets |-> << >>]
    ELSE [ok |-> TRUE, nets |-> nets]

\* Nets a user adds: one reusing the index of GND, two new ones.
ExtraNets ==
    { NetOf(1, "GND", {Named(1), Column(1)}),
      NetOf(8, "Net 8", {Column(1), Column(2)}),
      NetOf(9, "Net 9", {Column(3), Named(8)}) }

\* The special nets, the `drop`-th left out and the `ren`-th renamed
\* (0: none), followed by `extra`.
Submission(drop, ren, extra) ==
    LET named == [k \in 1..Len(SPECIAL_NETS) |->
                    IF k = ren
                    THEN NetOf(SPECIAL_NETS[k].index, "x", SPECIAL_NETS[k].nodes)
                    ELSE SPECIAL_NETS[k]]
    IN  SelectSeq(named, LAMBDA n : n.index # drop) \o extra

uploadOther ==
    << mainVars, dropVars, portVars, pathVars, otherExt, readVars, fifoVars,
       boardVars >>

\* main.rs NetCommand::Send: the file is deserialized and handed to
\* set_netlist.
net_send(nets) ==
    /\ entry' = "cli"
    /\ submitted' = nets
    /\ uploaded' = [sent |-> TRUE, nets |-> nets]
    /\ UNCHANGED uploadOther

\* server.rs put_nets: `device.set_netlist(validate::netlist(json)?)?`
put_nets(nets) ==
    /\ entry' = "http"
    /\ submitted' = nets
    /\ uploaded' = [sent |-> validate_netlist(nets).ok,
                    nets |-> validate_netlist(nets).nets]
    /\ UNCHANGED uploadOther

NextUpload ==
    \/ entry = "-" /\ \E drop \in 0..7, ren \in 0..7 :
                        \E extra \in UNION { [1..n -> ExtraNets] : n \in 0..MaxExtra } :
                           net_send(Submission(drop, ren, extra))
    \/ entry = "-" /\ \E drop \in 0..7, ren \in 0..7 :
                        \E extra \in UNION { [1..n -> ExtraNets] : n \in 0..MaxExtra } :
                           put_nets(Submission(drop, ren, extra))

UploadSpec == Init /\ [][NextUpload]_vars

CallerStep == receive_ok_capture \/ raw \/ bridgelist

\* C1: receive_ok_capture returns success only when the item it stops on is
\* Ok(Some(seq)) for the awaited seq; an Ok/Error carrying another number
\* does not end the wait and is passed to the collector.
C1_AckMatchesSequence ==
    [][ receive_ok_capture =>
          /\ (pc' = "done" /\ ret' = "Ok")
                => (chan # << >> /\ Head(chan) = ReceivedMessage(Ok(awaited)))
          /\ (chan # << >> /\ IsAck(Head(chan))
                /\ Head(chan).body.seq \notin {None, awaited})
                => (pc' = "receive_ok" /\ captured' = Head(chan).body
                    /\ chan' = Tail(chan)) ]_vars

\* An await that first passed a foreign negative acknowledgement to the
\* collector and then returned on its own positive acknowledgement.
C1_Witness ==
    /\ pc = "done" /\ ret = "Ok" /\ op = "set_bridgelist" /\ ackTaken
    /\ captured.type = "Error" /\ captured.seq \notin {None, awaited}

\* C2: once the caller waits in receive_ok_capture it eventually leaves it,
\* whatever the device keeps sending.
C2_AwaitAckTerminates == (pc = "receive_ok") ~> (pc = "done")

\* C3: a bare `::ok` ends a pending receive_ok_capture as success and a bare
\* `::error` ends it as failure, whatever the awaited number.
C3_BareAckMatches ==
    [][ (receive_ok_capture /\ chan # << >> /\ IsAck(Head(chan))
            /\ Head(chan).body.seq = None)
          => /\ pc' = "done"
             /\ Head(chan).body.type = "Ok" => ret' = AfterOk(op, result)
             /\ Head(chan).body.type = "Error" => ret' = "Err" ]_vars

\* C4: when a composite operation consumes the negative acknowledgement of
\* its own instruction, the call ends with an error result.
C4_NackIsFailure ==
    [][ (CallerStep /\ op \in CompositeOps /\ chan # << >>
            /\ Head(chan) = ReceivedMessage(Error(awaited)))
          => (pc' = "done" /\ ret' = "Err") ]_vars

\* C5: a composite operation that returned success wrote exactly one
\* instruction and consumed the acknowledgement carrying its number.
C5_SuccessAfterOwnAck ==
    (pc = "done" /\ op \in CompositeOps /\ ret \in OkRets)
        => (written = 1 /\ ackTaken)

\* C6: a transport error (reader IO error or receive timeout) obtained by a
\* waiting operation ends the call with a failure in that very step.
C6_TransportErrorAborts ==
    [][ (CallerStep /\ receive.kind = "Error")
          => (pc' = "done" /\ ret' = "Err") ]_vars

\* C7: every sequence number written is non-zero and greater than every
\* number written before on the same Device.
C7_SequenceStrictlyIncreasing ==
    [][ (written' = written + 1)
          => /\ awaited' # U32(0)
             /\ maxIssued # None => LessU32(maxIssued, awaited') ]_vars

\* C8: after a closure failure the manager holds no Device, and the next
\* with_device call runs its closure on a newly built Device or returns the
\* open error without running it.
C8_FailureForgetsDevice ==
    [][ /\ (pc' = "done" /\ ret' = "Err") => device' = "None"
        /\ (pc = "done" /\ ret = "Err" /\ pc' = "idle") => device' = "None"
        /\ (device = "None" /\ calls' = calls + 1)
              => \/ usedConn' = 0 /\ ret' = "ConnErr"
                 \/ usedConn' = opens + 1 /\ opens' = opens + 1 ]_vars

\* A call that found no Device although one had been opened before (only
\* forget_device leaves that state) and runs on a Device opened for it.
C8_Witness ==
    /\ acquired = "opened" /\ pc = "send"
    /\ device = "Some" /\ usedConn = conn /\ conn = 2

\* C9: when the held Device's reader thread has finished, the next
\* with_device call does not run the closure on that Device: it builds a new
\* one or returns the open error without running the closure.
C9_DeadReaderReopens ==
    [][ (device = "Some" /\ reader = "finished" /\ calls' = calls + 1)
          => /\ usedConn' # conn
             /\ \/ usedConn' = 0 /\ ret' = "ConnErr" /\ pc' = "done"
                \/ usedConn' = opens + 1 /\ opens' = opens + 1 ]_vars

\* A call that found a finished reader and runs on the replacement Device.
C9_Witness ==
    /\ acquired = "reopened" /\ pc = "send"
    /\ usedConn = conn /\ conn = 2 /\ reader = "running"

\* C10: the result netlist() returns holds no Net record that was received
\* outside a NetlistBegin..NetlistEnd bracket.
C10_NetlistOnlyBracketed ==
    (pc = "done" /\ op = "netlist" /\ ret = "Ok") => ~stray

\* C11: drop of a Device terminates, whatever the reader is doing when it
\* starts (in a read, delivering lines, already ended by an IO error); once
\* it has returned the reader thread has ended and has not read, logged or
\* sent anything since.
C11_DropTerminates ==
    /\ [](dropped = "returned" => (reader = "finished" /\ ~late))
    /\ (dropped = "joining") ~> (dropped = "returned")

\* drop() has returned after the running reader took the stop signal at the
\* top of its loop and ended.
C11_Witness ==
    /\ dropped = "returned" /\ stop = 0 /\ rpos = "check"
    /\ reader = "finished" /\ calls = 0 /\ opens = 1 /\ device = "None"

\* C12: on a non-timeout IO error the reader sends exactly one Error and is
\* no longer running; it never runs or sends again on that Device; a caller
\* waiting in receive_ok_capture that receives this Error returns a failure
\* at once; and is_alive() is false once the thread has ended.
C12_IoErrorEndsReader ==
    [][ /\ reader_io_error
            => /\ chan' = Append(chan, ReceivedError("Read from serial port failed"))
               /\ reader' \in {"exiting", "finished"}
        /\ (reader \in {"exiting", "finished"} /\ conn' = conn)
            => /\ reader' \in {"exiting", "finished"}
               /\ chan' \in {chan, rest}
        /\ (receive_ok_capture /\ chan # << >>
              /\ Head(chan) = ReceivedError("Read from serial port failed"))
            => (pc' = "done" /\ ret' = "Err" /\ device' = "None")
        /\ reader' = "finished" => ~is_alive' ]_vars

\* A caller waits in receive_ok_capture, the reader has sent its Error and
\* is ending.
C12_Witness ==
    /\ pc = "receive_ok" /\ reader = "exiting" /\ device = "Some"
    /\ chan = << ReceivedError("Read from serial port failed") >>

\* C14: an operation waiting for a structured response (netlist, bridgelist,
\* supply_switch, chipstatus, raw) that receives an Unrecognized line ends
\* the call with a failure.
C14_UnrecognizedFailsRequest ==
    [][ (CallerStep /\ chan # << >> /\ Head(chan).kind = "Unrecognized"
            /\ op \in {"netlist", "bridgelist", "supply_switch", "chipstatus", "raw"})
          => (pc' = "done" /\ ret' = "Err") ]_vars

\* C13: whatever line starting with `::` the reader takes, it sends one
\* item, a Message or an Unrecognized carrying a line that does not parse,
\* and is still running afterwards.
C13_ParsingNeverCrashes ==
    [][ (reader = "running" /\ ~owner_receives)
          => /\ reader' = "running"
             /\ Len(chan') = Len(chan) + 1
             /\ chan'[Len(chan')].kind \in {"Message", "Unrecognized"}
             /\ chan'[Len(chan')].kind = "Unrecognized"
                   => ~message(chan'[Len(chan')].body).ok ]_vars

\* ---- port discovery: what the claims speak of
\* The groups of the ports present, each after de-duplication.
Listed == found.result = "Ok"

\* Every port of the group advertises the identity string / none does.
Matching(infos)    == \A i \in 1..Len(infos) : infos[i].product = "Jumperless"
NotMatching(infos) == \A i \in 1..Len(infos) : infos[i].product # "Jumperless"

\* The roles with which a device node was returned, one per entry.
EntriesOf(name) ==
    { i \in 1..Len(found.ports) : found.ports[i].info.name = name }
RolesOf(name) == { found.ports[i].role : i \in EntriesOf(name) }

Greater(infos) == IF infos[1].name > infos[2].name THEN infos[1] ELSE infos[2]
Smaller(infos) == IF infos[1].name > infos[2].name THEN infos[2] ELSE infos[1]

\* C15 as claimed: in a matching group of two ports (after de-duplication)
\* the port with the greater name is Primary and the other is the secondary
\* control channel; a single port is Primary.
C15_PrimaryIsGreaterName ==
    Listed =>
      \A id \in usb_ids(ports) :
        LET group == fixup_mac_ports(by_usb_id(ports, id))
        IN  Matching(by_usb_id(ports, id)) =>
              /\ Len(group) = 2 =>
                    /\ RolesOf(Greater(group).name) = {"JumperlessPrimary"}
                    /\ RolesOf(Smaller(group).name) = {"JumperlessArduino"}
              /\ Len(group) = 1 => RolesOf(group[1].name) = {"JumperlessPrimary"}

\* C15 as the code has it: in a matching group of two ports (after
\* de-duplication) the port with the smaller name is Primary and the other
\* is the secondary control channel; a single port is Primary.
C15_PrimaryIsSmallerName ==
    Listed =>
      \A id \in usb_ids(ports) :
        LET group == fixup_mac_ports(by_usb_id(ports, id))
        IN  Matching(by_usb_id(ports, id)) =>
              /\ Len(group) = 2 =>
                    /\ RolesOf(Smaller(group).name) = {"JumperlessPrimary"}
                    /\ RolesOf(Greater(group).name) = {"JumperlessArduino"}
              /\ Len(group) = 1 => RolesOf(group[1].name) = {"JumperlessPrimary"}

\* Two matching ports, the one with the greater name listed first, and the
\* second one returned as Primary.
C15_Witness ==
    /\ Listed /\ Len(ports) = 2
    /\ Matching(ports) /\ ports[1].usb = 1 /\ ports[2].usb = 1
    /\ ports[1].name = 5 /\ ports[2].name = 3
    /\ found.ports = << FoundPort(ports[2], "JumperlessPrimary"),
                        FoundPort(ports[1], "JumperlessArduino") >>

\* C16: no port of a matching group that has more than two ports after
\* de-duplication is returned as Primary or secondary control channel, and
\* the call returns what every other group contributes.
C16_OversizedGroupGetsNoRole ==
    Listed =>
      \A id \in usb_ids(ports) :
        LET all   == by_usb_id(ports, id)
            group == fixup_mac_ports(all)
        IN  (Matching(all) /\ Len(group) > 2) =>
              /\ \A i \in 1..Len(all) :
                    RolesOf(all[i].name) \cap
                        {"JumperlessPrimary", "JumperlessArduino"} = {}
              /\ \A other \in usb_ids(ports) \ {id} :
                    LET theirs == group_found(by_usb_id(ports, other))
                    IN  \A k \in 1..Len(theirs) :
                          \E i \in 1..Len(found.ports) : found.ports[i] = theirs[k]

\* A matching group of three ports next to a single port of another kind:
\* only the latter is returned.
C16_Witness ==
    /\ Listed /\ Len(ports) = 4
    /\ Len(by_usb_id(ports, 1)) = 3 /\ Matching(by_usb_id(ports, 1))
    /\ \A i \in 1..3 : ~IsTty(by_usb_id(ports, 1)[i].name)
    /\ Len(by_usb_id(ports, 2)) = 1
    /\ found.ports = << FoundPort(by_usb_id(ports, 2)[1], "Unknown") >>

\* C17: every port of a USB group in which no port advertises the identity
\* string is returned exactly once, with role Unknown.
C17_UnmatchedPortsUnknownOnce ==
    Listed =>
      \A id \in usb_ids(ports) :
        LET all == by_usb_id(ports, id)
        IN  NotMatching(all) =>
              \A i \in 1..Len(all) :
                /\ Cardinality(EntriesOf(all[i].name)) = 1
                /\ RolesOf(all[i].name) = {"Unknown"}

\* A group of three ports of another product, all three returned.
C17_Witness ==
    /\ Listed /\ Len(ports) = 3 /\ NotMatching(ports)
    /\ by_usb_id(ports, 1) = ports
    /\ found.ports = [i \in 1..3 |-> FoundPort(ports[i], "Unknown")]

\* C18: when a group holds the "cu" and the "tty" node of one physical
\* port, de-duplication keeps the "cu" node and drops the "tty" node of that
\* port, what remains is in the order it had, and a matching group is
\* reported by its remaining nodes.
C18_DedupKeepsAliasNode ==
    Listed =>
      \A id \in usb_ids(ports) :
        LET all   == by_usb_id(ports, id)
            group == fixup_mac_ports(all)
            Kept(info) == \E k \in 1..Len(group) : group[k] = info
        IN  /\ \A i, j \in 1..Len(all) :
                  (IsCu(all[i].name) /\ IsTty(all[j].name)
                      /\ Physical(all[i].name) = Physical(all[j].name))
                    => /\ Kept(all[i]) /\ ~Kept(all[j])
                       /\ Matching(all) => RolesOf(all[j].name) = {}
            /\ group = SelectSeq(all, Kept)

\* The four nodes of test_fixup_mac_ports, reported by the two "cu" nodes.
C18_Witness ==
    /\ Listed /\ Matching(ports)
    /\ [i \in 1..Len(ports) |-> ports[i].name] = << 1, 3, 2, 4 >>
    /\ by_usb_id(ports, 1) = ports
    /\ found.ports = << FoundPort(ports[1], "JumperlessPrimary"),
                        FoundPort(ports[3], "JumperlessArduino") >>

\* C19: with a fixed path, every with_device call that opens (first open,
\* re-open after a failure or after the reader ended, failed attempt) hands
\* exactly that path to Device::new and list_ports is not run.
C19_FixedPathAlwaysUsed ==
    [][ (path # 0 /\ calls' = calls + 1
            /\ acquired' \in {"opened", "reopened", "failed"})
          => (openedPath' = path /\ ~discovered') ]_vars

\* The second Device of a manager with a fixed path, opened for a status()
\* call after a failure had made it forget the first.
C19_Witness ==
    /\ path = FixedPath /\ openedPath = FixedPath /\ ~discovered
    /\ pc = "done" /\ op = "noop" /\ acquired = "opened" /\ conn = 2

\* C20: status() returns Ok in every case, with connected true when the
\* no-op closure ran on a Device (one that was alive, or one just opened)
\* and false when no Device could be acquired.
C20_StatusNeverFails ==
    (pc = "done" /\ op = "noop")
        => /\ status(ret).ok
           /\ status(ret).connected
                <=> (acquired \in {"alive", "opened", "reopened"} /\ usedConn # 0)

\* status() answering connected = false after a failed open.
C20_Witness ==
    /\ pc = "done" /\ op = "noop" /\ acquired = "failed" /\ ret = "ConnErr"
    /\ status(ret) = [ok |-> TRUE, connected |-> FALSE]

\* C21: a with_device call whose open fails returns the connection error in
\* that same step, runs no closure on any Device, writes nothing, opens
\* nothing, and leaves the manager without a live Device; while the manager
\* holds no live Device every call begins with an attempt to open.
C21_OpenErrorReturnedAtOnce ==
    [][ /\ (calls' = calls + 1 /\ acquired' = "failed")
            => /\ pc' = "done" /\ ret' = "ConnErr"
               /\ usedConn' = 0 /\ written' = 0
               /\ opens' = opens
               /\ ~(device' = "Some" /\ reader' # "finished")
        /\ (ret = "ConnErr" /\ pc' = "idle")
            => ~(device' = "Some" /\ reader' # "finished")
        /\ (calls' = calls + 1 /\ ~(device = "Some" /\ reader # "finished"))
            => /\ acquired' \in {"opened", "reopened", "failed"}
               /\ usedConn' \in {0, opens + 1} ]_vars

\* The second call fails to open after the first call's failed open, with
\* nothing opened in between.
C21_Witness ==
    /\ calls = 2 /\ acquired = "failed" /\ ret = "ConnErr" /\ pc = "done"
    /\ opens = 0 /\ device = "None"

\* C22: whenever a handler writes an instruction to the port or takes a
\* message from the inbound channel, no other handler is between the start
\* and the return of its with_device closure.
C22_OneOperationAtATime ==
    [][ \A d \in Clients :
          (/\ actor' = d
           /\ \/ hpc[d] = "send" /\ hpc'[d] = "receive"
              \/ hpc[d] = "receive" /\ chan # << >>)
          => \A c \in Clients \ {d} : ~InClosure(c) ]_vars

\* Handler 1 waits for its acknowledgement, a message is queued, and
\* handler 2 is blocked in lock().
C22_Witness ==
    /\ hpc[1] = "receive" /\ mutex = 1 /\ chan # << >>
    /\ hpc[2] = "lock"

\* C23: in the log file every piece continues the entry the piece before it
\* belongs to, and an entry begins only at the start of the file or right
\* after the newline that ended the entry before: no line holds pieces of
\* two entries.
C23_LogLinesNotInterleaved ==
    \A i \in 1..Len(file) :
       IF file[i].part = 1
       THEN i = 1 \/ file[i - 1].part = Pieces
       ELSE i > 1 /\ file[i - 1] = [tag |-> file[i].tag, part |-> file[i].part - 1]

\* A complete SEND line is in the file, the reader is in the middle of its
\* RECV line and the caller is blocked in lock() with its next SEND.
C23_Witness ==
    /\ Len(file) > Pieces
    /\ file[Pieces].tag = "SEND"
    /\ wpc["RECV"] = "write" /\ part["RECV"] > 1
    /\ wpc["SEND"] = "lock"

Swap(p) == << p[2], p[1] >>

\* C24: a bridge pair equals its reversed pair wherever pairs are compared:
\* `bridge add` pushes no bridge whose reversed pair the board's list holds
\* already, so no list it builds holds more entries than the board's list
\* for a pair and its reverse.
C24_PairEqualitySymmetric ==
    [][ fcall' = "bridge add"
          => \A j \in (Len(combined) + 1)..Len(combined') :
               \A i \in 1..Len(combined) : combined'[j] # Swap(combined[i]) ]_vars

\* C25: a Node built from an integer, given as decimal text to Node::parse or
\* as a JSON number to the deserializer, exists exactly when the integer is
\* in 1..60, and is then Column(n), whose text form is the decimal n.
C25_ColumnExactlyOneToSixty ==
    call \in {"parse_number", "deserialize_number"}
      => /\ nodeOut.ok <=> number \in 1..MaxColumn
         /\ nodeOut.ok => nodeOut.node = Column(number) /\ shown = Decimal(number)

\* C26: every name Node::parse knows, alias or canonical, yields a Node whose
\* text form parses to the same Node; and every named Node's text form
\* parses to that Node.
C26_NamesRoundTrip ==
    /\ call = "parse_name" /\ nodeOut.ok => again = nodeOut
    /\ call = "parse_name" /\ (\E a \in Arms : a[1] = textIn.word) => nodeOut.ok
    /\ call = "to_string" => again = Some(Named(number))

\* The alias "I_POS" has been parsed: ISENSE_PLUS, whose text form parses to
\* ISENSE_PLUS again.
C26_Witness ==
    /\ call = "parse_name" /\ textIn = Word("I_POS")
    /\ nodeOut.ok /\ shown = Word("ISENSE_PLUS") /\ again = nodeOut

\* C27: the text form of a Color parses back to the same three bytes.
C27_ColorRoundTrip ==
    call = "color" => colorOut = [ok |-> TRUE, value |-> colorIn]

\* A colour with a channel below 16 and a channel of two letters.
C27_Witness ==
    /\ call = "color" /\ colorIn = << 9, U8Max, 160 >>
    /\ colorText = << "#", "0", "9", "f", "f", "a", "0" >>
    /\ colorOut.ok

\* C28: netlist() run against the sample reply (the bracket, seven net
\* lines, the acknowledgement of its request) returns exactly the seven Net
\* records, in the order received, with index 1..7.
C28_NetlistInInputOrder ==
    (pc = "done" /\ op = "netlist" /\ ret = "Ok")
      => result = [i \in 1..Len(SampleNodes) |-> Net(i)]

\* The second netlist() call has returned the seven records.
C28_Witness ==
    /\ pc = "done" /\ op = "netlist" /\ ret = "Ok"
    /\ calls = 2 /\ Len(result) = Len(SampleNodes) /\ result[Len(SampleNodes)] = Net(Len(SampleNodes))

\* C29: a read that returns a line not starting with "::" puts nothing in
\* the inbound channel, and a read that times out puts nothing in it and
\* lets the reader go on to its next iteration; nothing waiting in the
\* channel stems from such a line.
C29_OnlyProtocolLinesDelivered ==
    /\ [](\A i \in 1..Len(chan) : chan[i].kind = "Unrecognized" => chan[i].body # DebugLine)
    /\ [][ (rpos = "read" /\ (rpos' = "check" \/ reader' # reader))
           => /\ (lastRead'.what = "line" /\ lastRead'.line = DebugLine)
                    => chan' = chan /\ reader' = "running" /\ rpos' = "check"
              /\ lastRead'.what = "timeout"
                    => chan' = chan /\ reader' = "running" /\ rpos' = "check" ]_vars

\* The reader's read has timed out and the reader is back at the top of its
\* loop, running, with nothing queued.
C29_Witness ==
    /\ lastRead.what = "timeout" /\ reader = "running" /\ rpos = "check"
    /\ chan = << >> /\ dropped = "no"

\* C30: a NodeFile built from the empty one by add_connection, add_from,
\* remove_connection and remove_from never holds two connections that are
\* the same unordered pair, and adding a connection that is present in
\* either orientation leaves it as it was.
C30_NodeFileHasNoDuplicates ==
    /\ [](\A i \in 1..Len(nodefile) : \A j \in 1..Len(nodefile) :
             i # j => nodefile[i] # nodefile[j] /\ nodefile[i] # Swap(nodefile[j]))
    /\ [][ (fcall' = "add_connection"
            /\ \E i \in 1..Len(nodefile) :
                 nodefile[i] \in {farg'[1], Swap(farg'[1])})
           => nodefile' = nodefile ]_vars

\* 13-7 has just been handed to add_connection of a NodeFile that holds
\* 7-13 and another connection: the NodeFile still holds these two.
C30_Witness ==
    /\ fcall = "add_connection"
    /\ farg = << << Column(13), Column(7) >> >>
    /\ Len(nodefile) = 2
    /\ nodefile[1] = << Column(7), Column(13) >>

\* C31: the netlist handed to set_netlist, from the command line or from
\* PUT /nets, has no two nets with the same index.
C31_NetIndicesDistinct ==
    uploaded.sent =>
      \A i, j \in 1..Len(uploaded.nets) :
        uploaded.nets[i].index = uploaded.nets[j].index => i = j

\* C32: an acknowledgement carrying the number of an earlier request on the
\* same Device does not end raw(): raw() goes on waiting for its own.
C32_RawIgnoresStaleAck ==
    [][ (raw /\ chan # << >> /\ IsAck(Head(chan))
            /\ Head(chan).body.seq # None
            /\ LessU32(Head(chan).body.seq, awaited))
          => pc' = "raw" ]_vars

\* C33: once bridgelist() waits for the `::bridgelist[...]` message it
\* eventually stops waiting for it: the message arrives, or the call returns.
C33_BridgelistTerminates == (pc = "bridgelist") ~> (pc # "bridgelist")

\* C34: the acknowledgement that ends a request answers a request written
\* on the Device the request was issued on, never one written on a Device
\* that has been discarded since.
C34_LateAckNotAccepted ==
    [][ (receive_ok_capture /\ ackTaken' /\ ~ackTaken)
          => OriginOfHead = conn ]_vars

\* C35: at every moment at most one Device, and so at most one open serial
\* handle of the manager, exists.
C35_AtMostOneTransport == Cardinality(Transports) <= 1

\* C36: the k-th send_instruction call on a Device writes a line carrying
\* the number k and returns that number.
C36_KthSendUsesK ==
    [][ (written' = written + 1) => (awaited' = sends') ]_vars

\* C37: of a group that identifies as the hardware, list_ports drops a
\* device node only if the node is not a "cu" node and a "cu" node of the
\* same physical port is in the group; every other node is still there
\* after fixup_mac_ports.
C37_DedupRemovesOnlyTwinned ==
    found.result = "Ok" =>
      \A id \in usb_ids(ports) :
        LET infos == by_usb_id(ports, id)
            fixed == fixup_mac_ports(infos)
        IN  infos[1].product = "Jumperless" =>
              \A i \in 1..Len(infos) :
                \/ \E j \in 1..Len(fixed) : fixed[j] = infos[i]
                \/ /\ ~IsCu(infos[i].name)
                   /\ \E k \in 1..Len(infos) :
                        /\ IsCu(infos[k].name)
                        /\ Physical(infos[k].name) = Physical(infos[i].name)

\* What the lines read so far make when each is parsed.
Delivered == [i \in 1..Len(readLog) |-> parse_received(readLog[i])]

\* The items that stand for lines, without the reader's error reports.
FromLines(items) == SelectSeq(items, LAMBDA r : r.kind # "Error")

\* C38: while the Device exists, the items the owner has received followed
\* by those still queued are the lines starting with "::" the reader has
\* read, each parsed, in read order: none lost, repeated or out of place.
C38_MessagesInReadOrder ==
    dropped # "returned" => FromLines(taken \o chan) = Delivered

\* The names of the ports list_ports reports as primary, in some order of
\* its map.
PrimaryNames ==
    UNION { { fnd[i].info.name :
                i \in { j \in 1..Len(fnd) : fnd[j].role = "JumperlessPrimary" } } :
            fnd \in { found_in_order(ports, order) :
                        order \in KeyOrders(usb_ids(ports)) } }

\* C39: in dynamic mode a with_device call that has to open hands
\* Device::new the name of a port list_ports reports as primary, and runs the
\* closure on the Device so built; when list_ports reports no primary port
\* the call returns the error, no port is opened and the closure is not run.
C39_DynamicOpensPrimary ==
    [][ (path = 0 /\ calls' = calls + 1 /\ ~(device = "Some" /\ is_alive))
          => /\ discovered'
             /\ (openedPath' # openedPath \/ usedConn' # 0)
                   => openedPath' \in PrimaryNames
             /\ usedConn' # 0 => (usedConn' = opens + 1 /\ opens' = opens + 1)
             /\ PrimaryNames = {}
                   => /\ ret' = "ConnErr" /\ pc' = "done"
                      /\ usedConn' = 0
                      /\ opens' = opens /\ openedPath' = openedPath
                      /\ device' = device ]_vars

\* Two calls in dynamic mode: the first returned the open error without
\* building a Device; the second opened a primary port, with a port of
\* another product present as well.
C39_Witness ==
    /\ path = 0 /\ calls = 2 /\ opens = 1
    /\ acquired = "opened" /\ usedConn = 1 /\ device = "Some"
    /\ openedPath \in PrimaryNames
    /\ Len(ports) = MaxPlugged
    /\ \E i \in 1..Len(ports) : ports[i].product = "Other"

TypeOK ==
    /\ device \in {"None", "Some"}
    /\ reader \in {"none", "running", "exiting", "finished"}
    /\ pc \in {"idle", "opening", "send", "receive_ok", "raw", "bridgelist", "done",
             "panic"}
    /\ op \in Ops
    /\ ret \in {"Pending", "Ok", "OkFalse", "Err", "ConnErr"}
    /\ IsU32(sequence)
    /\ Len(chan) <= MaxQueue

====
